---- MODULE Spec2Model ----
(***************************************************************************)
(* Model of the GitHub webhook relay of baijum/data-ingestion (src/app.py): *)
(* the /webhook handler github_webhook, the signature verifier, the        *)
(* artifact fetcher and the uploader upload_ci_build_data.                 *)
(*                                                                         *)
(* Several specifications share the module: Spec is one webhook delivery    *)
(* (SpecLive adds the fairness of its steps), SpecConcurrent two deliveries *)
(* in flight, SpecUpload one direct call of upload_ci_build_data,           *)
(* SpecCrawler the runs of src/prow_crawler.py's main over one tracker      *)
(* file, SpecPr one run of src/pr_uploader.py's main.                       *)
(*                                                                         *)
(* One delivery is handled step by step (pc follows the handler's code).   *)
(* Strings that the code takes apart (split, capitalize, lower, substring) *)
(* are sequences of one-character strings; strings that are only compared  *)
(* are TLA+ strings.  An optional value is a set: None is {} and a present  *)
(* value v is {v}.                                                          *)
(*                                                                         *)
(* Modelling assumptions, all about the inputs and none about the code:    *)
(*  - the body of a delivery parses as a JSON object carrying the fields   *)
(*    GitHub documents for its event type (request.get_json succeeds);     *)
(*  - the pass-through fields triggered_name/email/id play no part in any  *)
(*    branch and are left out of the payload;                              *)
(*  - breakpoint() (src/app.py:278) calls the interpreter's debugger hook, *)
(*    which is not program state; it is modelled as returning;             *)
(*  - HMAC-SHA1 is an ideal keyed digest: equal exactly when key and       *)
(*    message are equal.                                                   *)
(***************************************************************************)
EXTENDS Integers, Sequences, FiniteSets, TLC

VARIABLES
    GITHUB_SECRET,      \* module global, read from the environment at import
    LOGILICA_TOKEN,     \* module global, read from the environment at import
    event_header,       \* the X-GitHub-Event header of the delivery (optional)
    header_signature,   \* the X-Hub-Signature header of the delivery (optional)
    payload,            \* request.get_json()
    pc,                 \* position of the handler
    attempt,            \* loop variable of the retry loop
    source_prefix,      \* new_source_prefix, the object path prefix
    finished_json,      \* parsed finished.json (optional)
    started_json,       \* parsed started.json (optional)
    verify_calls,       \* number of verify_signature calls
    verify_result,      \* what the last verify_signature call did, "" if none
    fetches,            \* the download_single_file_from_gcs calls, in order
    upload_calls,       \* number of upload_ci_build_data calls
    upload_oks,         \* number of upload_ci_build_data calls that returned
    get_calls,          \* number of GET /repositories requests
    post_calls,         \* number of POST .../create requests
    last_post,          \* the last POST issued (optional)
    last_call,          \* summary of the last upload_ci_build_data call
    sleeps,             \* the time.sleep calls (their delays), in order
    last_error,         \* the last exception raised in the handler, "" if none
    response,           \* the handler's outcome: [status, msg], status 0 = none yet
    direct_call,        \* the last direct call of upload_ci_build_data: input and outcome
    tracker_file,       \* prow_crawler: the lines of the tracker file, in order
    crawler_pc,         \* prow_crawler: position of main
    runs,               \* prow_crawler: number of runs of main started so far
    dry_run,            \* prow_crawler: args.dry_run of the run
    limit,              \* prow_crawler: args.limit of the run
    processed_builds,   \* prow_crawler: the set load_processed_builds returned
    builds_to_process,  \* prow_crawler: new_builds[:limit]
    success_count,      \* prow_crawler: success_count of main's loop
    item_log,           \* prow_crawler: what each loop iteration of the run did, in order
    tracker_at_start,   \* prow_crawler: the tracker file's lines when the run started
    uploaded_before,    \* prow_crawler: builds whose upload succeeded in an earlier run
    all_builds,         \* prow_crawler: the build ids parsed from the history page
    pr_pc,              \* pr_uploader: position of main
    pr_num,             \* pr_uploader: the next PR number of main's loop
    end_pr,             \* pr_uploader: the last PR number to process
    ci_context,         \* pr_uploader: args.ci_context
    pr_success_count,   \* pr_uploader: success_count of main's loop
    pr_log,             \* pr_uploader: what process_pr did for each PR, in order
    parked              \* the state of a second delivery while this one runs

vars == << GITHUB_SECRET, LOGILICA_TOKEN, event_header, header_signature, payload,
           pc, attempt, source_prefix, finished_json, started_json, verify_calls,
           verify_result, fetches, upload_calls, upload_oks, get_calls, post_calls,
           last_post, last_call, sleeps, last_error, response, direct_call,
           tracker_file, crawler_pc, runs, dry_run, limit, processed_builds,
           builds_to_process, success_count, item_log, tracker_at_start, uploaded_before,
           all_builds, pr_pc, pr_num, end_pr, ci_context, pr_success_count, pr_log,
           parked >>

\* State of prow_crawler.py.
crawler == << tracker_file, crawler_pc, runs, dry_run, limit, processed_builds,
              builds_to_process, success_count, item_log, tracker_at_start,
              uploaded_before, all_builds >>

\* State of pr_uploader.py.
pr_uploader == <<pr_pc, pr_num, end_pr, ci_context, pr_success_count, pr_log>>

\* State that a step of the running handler leaves alone: the code that runs
\* outside the webhook handler, and the other delivery.
standalone == <<direct_call, crawler, pr_uploader, parked>>

\* ------------------------------------------------------------------ bounds

\* Longest repository listing the downstream API returns in the model.
MaxListLen == 2

\* ------------------------------------------------------- program constants

max_retries == 7
retry_delay == 5

\* ----------------------------------------------------------------- strings

None == {}
Some(v) == {v}
Get(o) == CHOOSE v \in o : TRUE

s_success == <<"s", "u", "c", "c", "e", "s", "s">>
s_failure == <<"f", "a", "i", "l", "u", "r", "e">>
s_pending == <<"p", "e", "n", "d", "i", "n", "g">>
s_neutral == <<"n", "e", "u", "t", "r", "a", "l">>
s_bucket == <<"t", "e", "s", "t", "-", "p", "l", "a", "t", "f", "o", "r", "m", "-",
              "r", "e", "s", "u", "l", "t", "s">>
s_finished == <<"/", "f", "i", "n", "i", "s", "h", "e", "d", ".", "j", "s", "o", "n">>
s_started == <<"/", "s", "t", "a", "r", "t", "e", "d", ".", "j", "s", "o", "n">>
s_openshift_ci == <<"O", "p", "e", "n", "S", "h", "i", "f", "t", " ", "C", "I", " ">>
s_konflux_name == <<"R", "e", "d", " ", "H", "a", "t", " ", "K", "o", "n", "f", "l", "u", "x">>
s_konflux == <<"k", "o", "n", "f", "l", "u", "x">>
s_gs == <<"/", "g", "s", "/">>
s_slash == <<"/">>
s_hyphen == <<"-">>
s_unknown == <<"u", "n", "k", "n", "o", "w", "n">>
s_github == <<"h", "t", "t", "p", "s", ":", "/", "/", "g", "i", "t", "h", "u", "b", ".",
              "c", "o", "m", "/">>

\* Inputs: target URLs of status events, names and details URLs of check runs,
\* repository names.
url_prow == <<"h", "/", "g", "s", "/", "t", "e", "s", "t", "-", "p", "l", "a", "t", "f",
              "o", "r", "m", "-", "r", "e", "s", "u", "l", "t", "s", "/", "p", "r", "/",
              "e", "2", "e", "-", "t", "/", "4", "5">>
url_other_bucket == <<"h", "/", "g", "s", "/", "b", "2", "/", "p", "r", "/", "e", "2",
                      "e", "-", "t", "/", "4", "6">>
url_short == <<"h", "/", "g", "s", "/", "4", "8">>
name_konflux == <<"R", "e", "d", " ", "H", "a", "t", " ", "K", "o", "n", "f", "l", "u",
                  "x", " ", "/", " ", "o", "n", "-", "p", "r">>
name_build == <<"b", "u", "i", "l", "d">>
durl_konflux == <<"h", "/", "K", "o", "n", "F", "l", "u", "x", "/", "9">>
durl_plain == <<"h", "/", "c", "i", "/", "9">>
repo_org == <<"o", "r", "g", "/", "r", "e", "p", "o">>
repo_other == <<"o", "t", "h", "e", "r", "/", "r", "e", "p", "o">>

\* str.split(sep): the pieces between the non-overlapping occurrences of sep,
\* scanned from the left; cur is the piece being collected.
RECURSIVE SplitFrom(_, _, _)
SplitFrom(s, sep, cur) ==
    IF s = <<>> THEN <<cur>>
    ELSE IF Len(s) >= Len(sep) /\ SubSeq(s, 1, Len(sep)) = sep
         THEN <<cur>> \o SplitFrom(SubSeq(s, Len(sep) + 1, Len(s)), sep, <<>>)
         ELSE SplitFrom(Tail(s), sep, Append(cur, Head(s)))

Split(s, sep) == SplitFrom(s, sep, <<>>)

\* str.split(sep, 1): at most one split, at the first occurrence of sep.
RECURSIVE SplitOnceFrom(_, _, _)
SplitOnceFrom(s, sep, cur) ==
    IF s = <<>> THEN <<cur>>
    ELSE IF Len(s) >= Len(sep) /\ SubSeq(s, 1, Len(sep)) = sep
         THEN <<cur, SubSeq(s, Len(sep) + 1, Len(s))>>
         ELSE SplitOnceFrom(Tail(s), sep, Append(cur, Head(s)))

SplitOnce(s, sep) == SplitOnceFrom(s, sep, <<>>)

Last(q) == q[Len(q)]

\* needle in hay, for Python strings.
Contains(hay, needle) ==
    \E i \in 0..(Len(hay) - Len(needle)) : SubSeq(hay, i + 1, i + Len(needle)) = needle

\* The letters of the model's strings and their upper-case forms.
UpperCase ==
    ("a" :> "A") @@ ("b" :> "B") @@ ("c" :> "C") @@ ("d" :> "D") @@ ("e" :> "E") @@ ("f" :> "F") @@ ("h" :> "H") @@ ("i" :> "I") @@ ("k" :> "K")
    @@ ("l" :> "L") @@ ("n" :> "N") @@ ("o" :> "O") @@ ("p" :> "P") @@ ("r" :> "R") @@ ("s" :> "S") @@ ("t" :> "T") @@ ("u" :> "U") @@ ("x" :> "X")

LowerCase ==
    ("A" :> "a") @@ ("B" :> "b") @@ ("C" :> "c") @@ ("D" :> "d") @@ ("E" :> "e") @@ ("F" :> "f") @@ ("H" :> "h") @@ ("I" :> "i") @@ ("K" :> "k")
    @@ ("L" :> "l") @@ ("N" :> "n") @@ ("O" :> "o") @@ ("P" :> "p") @@ ("R" :> "r") @@ ("S" :> "s") @@ ("T" :> "t") @@ ("U" :> "u") @@ ("X" :> "x")

UpperChar(c) == IF c \in DOMAIN UpperCase THEN UpperCase[c] ELSE c

LowerChar(c) == IF c \in DOMAIN LowerCase THEN LowerCase[c] ELSE c

\* str.lower()
Lower(s) == [i \in DOMAIN s |-> LowerChar(s[i])]

\* Mutant of Capitalize: the first character is upper-cased, the rest is kept.
CapitalizeFirstOnly(s) == [i \in DOMAIN s |-> IF i = 1 THEN UpperChar(s[i]) ELSE s[i]]

\* str.capitalize(): first character upper-cased, the rest lower-cased.
Capitalize(s) == [i \in DOMAIN s |-> IF i = 1 THEN UpperChar(s[i]) ELSE LowerChar(s[i])]

\* str(n) for the one-digit identifiers of the model.
DigitStr == [n \in 0..9 |->
               CASE n = 0 -> "0" [] n = 1 -> "1" [] n = 2 -> "2" [] n = 3 -> "3"
                 [] n = 4 -> "4" [] n = 5 -> "5" [] n = 6 -> "6" [] n = 7 -> "7"
                 [] n = 8 -> "8" [] n = 9 -> "9"]

Str(n) == <<DigitStr[n]>>

\* An ISO-8601 instant is [day, sec]: day days after 1970-01-01, sec seconds
\* after midnight UTC; int(fromisoformat(..).timestamp()) is its epoch second.
IsoToEpoch(iso) == iso.day * 86400 + iso.sec

\* -------------------------------------------------------- signature verifier

\* One piece of a header value between '=' signs: literal text, or the hex
\* digest of HMAC-SHA1 under key over msg.
Text(t) == [text |-> t, key |-> "", msg |-> ""]
Digest(k, m) == [text |-> "", key |-> k, msg |-> m]

\* Mutant of HmacHex: the digest does not depend on the key.
HmacHexKeyless(key, msg) == Digest("", msg)

\* hmac.new(key, msg, sha1).hexdigest()
HmacHex(key, msg) == Digest(key, msg)

\* A str that hmac.compare_digest accepts (ASCII only).
IsAscii(part) == part.text # "nonascii"

\* verify_signature(payload, header_signature) with the global secret:
\* "True", "False", or the exception that escapes it.  header is the optional
\* header value, already cut at its '=' signs (header_signature.split("=")).
verify_signature(secret, data, header) ==
    IF header = None THEN "False"
    ELSE LET parts == Get(header) IN
         IF Len(parts) # 2 THEN "False"                     \* ValueError on unpacking
         ELSE IF parts[1] # Text("sha1") THEN "False"
         ELSE IF secret = None THEN "AttributeError"        \* None.encode
         ELSE IF ~IsAscii(parts[2]) THEN "TypeError"        \* compare_digest
         ELSE IF HmacHex(Get(secret), data) = parts[2] THEN "True" ELSE "False"

\* ------------------------------------------------------------------ uploader

\* Mutant of FindRepoId: the first entry's id, whatever its name.
FindRepoIdFirst(data, repo_full_name) ==
    IF data = <<>> THEN "" ELSE data[1].id

\* Mutant of FindRepoId: the loop has no break, the last entry of that name wins.
FindRepoIdLast(data, repo_full_name) ==
    LET hits == {i \in DOMAIN data : data[i].name = repo_full_name} IN
    IF hits = {} THEN ""
    ELSE data[CHOOSE i \in hits : \A j \in hits : i >= j].id

\* The for loop of upload_ci_build_data over the listing: the id of the first
\* entry whose name equals repo_full_name, "" when there is none.
FindRepoId(data, repo_full_name) ==
    LET hits == {i \in DOMAIN data : data[i].name = repo_full_name} IN
    IF hits = {} THEN ""
    ELSE data[CHOOSE i \in hits : \A j \in hits : i <= j].id

\* Entry i of the listing is the first one named repo_full_name.
FirstNamed(listing, i, repo_full_name) ==
    /\ listing[i].name = repo_full_name
    /\ \A j \in 1..(i - 1) : listing[j].name # repo_full_name

\* The URL of the create-build endpoint, as its path pieces.
CreateUrl(repo_id) == <<"https://logilica.io/api/import/v1/ci_build", repo_id, "create">>

\* The JSON body POSTed to the create-build endpoint.
BuildPayload(a) ==
    LET conclusion == Capitalize(a.conclusion) IN
    << [ origin |-> "OpenShift_CI",
         originalID |-> a.original_id,
         name |-> a.name_of_payload,
         url |-> a.details_url,
         startedAt |-> a.started_at_epoch,
         createdAt |-> a.started_at_epoch,
         completedAt |-> a.completed_at_epoch,
         status |-> "Completed",
         conclusion |-> conclusion,
         repoUrl |-> s_github \o a.repo_full_name,
         commit |-> a.commit_sha,
         pullRequestUrls |-> <<a.details_url>>,
         isDeployment |-> TRUE,
         stages |-> << [ name |-> a.name_of_payload,
                         id |-> a.original_id,
                         url |-> a.details_url,
                         startedAt |-> a.started_at_epoch,
                         completedAt |-> a.completed_at_epoch,
                         status |-> "Completed",
                         conclusion |-> conclusion,
                         jobs |-> << [ name |-> a.name_of_payload,
                                       startedAt |-> a.started_at_epoch,
                                       completedAt |-> a.completed_at_epoch,
                                       status |-> "Completed",
                                       conclusion |-> conclusion ] >> ] >> ] >>

\* Mutant of TokenMissing: the token check is left out.
TokenNeverMissing(token) == FALSE

\* The token check of upload_ci_build_data: `not logilica_token`.
TokenMissing(token) == token = None \/ token = Some("")

\* One call of upload_ci_build_data.  get is what GET /repositories does in
\* this call ([kind, listing]; kind "raise" = transport error, "http_error" =
\* raise_for_status fails), post what the POST does.  The result: err is the
\* exception that leaves the call ("" when it returns), gets/posts count the
\* requests issued, sent is the POST issued (optional): its URL and its body.
upload_ci_build_data(token, a, get, post) ==
    LET none == [err |-> "", gets |-> 0, posts |-> 0, sent |-> None]
        repo_id == FindRepoId(get.listing, a.repo_full_name)
        sent == Some([url |-> CreateUrl(repo_id), json |-> BuildPayload(a)])
    IN  IF TokenMissing(token)
          THEN [none EXCEPT !.err = "ValueError: LOGILICA_TOKEN not set"]
        ELSE IF get.kind = "raise"
          THEN [none EXCEPT !.err = "RequestException: GET", !.gets = 1]
        ELSE IF get.kind = "http_error"
          THEN [none EXCEPT !.err = "HTTPError: GET", !.gets = 1]
        ELSE IF repo_id = ""
          THEN [none EXCEPT !.err = "ValueError: repository not found", !.gets = 1]
        ELSE IF post = "raise"
          THEN [err |-> "RequestException: POST", gets |-> 1, posts |-> 1, sent |-> sent]
        ELSE IF post = "http_error"
          THEN [err |-> "HTTPError: POST", gets |-> 1, posts |-> 1, sent |-> sent]
        ELSE [err |-> "", gets |-> 1, posts |-> 1, sent |-> sent]

\* -------------------------------------------------------------------- inputs

\* request.data of the delivery, and some other body.
Body == "body"
OtherBody == "other body"

\* Values of the X-Hub-Signature header, cut at their '=' signs.
Signatures ==
    { None,
      Some(<<Text("sha1")>>),
      Some(<<Text("sha1"), Digest("s1", Body)>>),
      Some(<<Text("sha1"), Digest("s2", Body)>>),
      Some(<<Text("sha1"), Digest("s1", OtherBody)>>),
      Some(<<Text("sha256"), Digest("s1", Body)>>),
      Some(<<Text("sha1"), Digest("s1", Body), Text("")>>),
      Some(<<Text("sha1"), Text("nonascii")>>) }

EventHeaders == {None, Some("ping"), Some("status"), Some("check_run"), Some("push")}

Secrets == {None, Some("s1")}
Tokens == {None, Some(""), Some("tok")}

StatusPayloads ==
    [ context : {"ci/prow/e2e", "ci/prow/e2e-tests", "ci/prow/unit"},
      state : {s_success, s_failure, s_pending},
      target_url : {url_prow, url_other_bucket, url_short} ]

CheckRunPayloads ==
    [ status : {"completed", "queued"},
      conclusion : {None, Some(s_success), Some(s_failure), Some(s_neutral)},
      name : {name_konflux, name_build},
      details_url : {None, Some(durl_konflux), Some(durl_plain)},
      id : {7},
      started_at : {[day |-> 1, sec |-> 10]},
      completed_at : {[day |-> 1, sec |-> 70]},
      head_sha : {<<"a", "b", "c">>},
      repo_full_name : {repo_org} ]

OtherPayloads == {[zen |-> "Keep it simple"]}

\* Mutant of EventOf: headers.get without its default, so that a missing
\* header is no event type at all.
EventOfNoDefault(h) == IF h = None THEN "None" ELSE Get(h)

\* X-GitHub-Event, "ping" when the header is absent.
EventOf(h) == IF h = None THEN "ping" ELSE Get(h)

Payloads(ev) ==
    CASE ev = "status" -> StatusPayloads
      [] ev = "check_run" -> CheckRunPayloads
      [] OTHER -> OtherPayloads

\* What one artifact download does: it raises, it returns bytes that are no
\* JSON, or it returns a document.
FinishedDocs == [timestamp : {None, Some(2)}, repo : {None, Some(repo_org)}]
StartedDocs == [timestamp : {None, Some(1)}, commit : {None, Some(<<"a", "b", "c">>)}]

FetchResults(docs) ==
    {[kind |-> "raise", doc |-> None], [kind |-> "badjson", doc |-> None]}
        \cup {[kind |-> "ok", doc |-> Some(d)] : d \in docs}

\* Repository listings of the downstream API, at most MaxListLen entries.
RepoEntries ==
    { [id |-> "r1", name |-> repo_org], [id |-> "r2", name |-> repo_org],
      [id |-> "", name |-> repo_org], [id |-> "r3", name |-> repo_other] }
Listings == UNION {[1..n -> RepoEntries] : n \in 0..MaxListLen}

GetResults ==
    {[kind |-> "raise", listing |-> <<>>], [kind |-> "http_error", listing |-> <<>>]}
        \cup {[kind |-> "ok", listing |-> l] : l \in Listings}

PostResults == {"raise", "http_error", "ok"}

\* --------------------------------------------------------------------- state

NoResponse == [status |-> 0, msg |-> ""]
NoCall == [err |-> "", gets |-> 0, posts |-> 0, get_kind |-> "", named |-> FALSE,
           first_id |-> ""]

NoDirectCall == [op |-> "none"]

\* No delivery has been received yet.
WebhookIdle ==
    /\ event_header = None
    /\ header_signature = None
    /\ payload = [zen |-> "Keep it simple"]
    /\ pc = "idle"
    /\ attempt = 0
    /\ source_prefix = <<>>
    /\ finished_json = None
    /\ started_json = None
    /\ verify_calls = 0
    /\ verify_result = ""
    /\ fetches = <<>>
    /\ upload_calls = 0
    /\ upload_oks = 0
    /\ get_calls = 0
    /\ post_calls = 0
    /\ last_post = None
    /\ last_call = NoCall
    /\ sleeps = <<>>
    /\ last_error = ""
    /\ response = NoResponse

\* prow_crawler.py has not been started; the tracker file holds lines.
CrawlerIdle(lines) ==
    /\ tracker_file = lines
    /\ crawler_pc = "idle"
    /\ runs = 0
    /\ dry_run = FALSE
    /\ limit = 0
    /\ processed_builds = {}
    /\ builds_to_process = <<>>
    /\ success_count = 0
    /\ item_log = <<>>
    /\ tracker_at_start = lines
    /\ uploaded_before = {}
    /\ all_builds = <<>>

\* pr_uploader.py has not been started.
PrUploaderIdle ==
    /\ pr_pc = "idle"
    /\ pr_num = 0
    /\ end_pr = 0
    /\ ci_context = <<>>
    /\ pr_success_count = 0
    /\ pr_log = <<>>

\* What one delivery owns: its request and the locals of its call of
\* github_webhook, with what that call has done so far.
Context ==
    [ event_header |-> event_header, header_signature |-> header_signature,
      payload |-> payload, pc |-> pc, attempt |-> attempt,
      source_prefix |-> source_prefix, finished_json |-> finished_json,
      started_json |-> started_json, verify_calls |-> verify_calls,
      verify_result |-> verify_result, fetches |-> fetches,
      upload_calls |-> upload_calls, upload_oks |-> upload_oks,
      get_calls |-> get_calls, post_calls |-> post_calls, last_post |-> last_post,
      last_call |-> last_call, sleeps |-> sleeps, last_error |-> last_error,
      response |-> response ]

\* A delivery that has not been received yet.
NoDelivery ==
    [ event_header |-> None, header_signature |-> None,
      payload |-> [zen |-> "Keep it simple"], pc |-> "idle", attempt |-> 0,
      source_prefix |-> <<>>, finished_json |-> None, started_json |-> None,
      verify_calls |-> 0, verify_result |-> "", fetches |-> <<>>, upload_calls |-> 0,
      upload_oks |-> 0, get_calls |-> 0, post_calls |-> 0, last_post |-> None,
      last_call |-> NoCall, sleeps |-> <<>>, last_error |-> "",
      response |-> NoResponse ]

Init ==
    /\ GITHUB_SECRET \in Secrets
    /\ LOGILICA_TOKEN \in Tokens
    /\ WebhookIdle
    /\ direct_call = NoDirectCall
    /\ CrawlerIdle(<<>>)
    /\ PrUploaderIdle
    /\ parked = NoDelivery

event == EventOf(event_header)

config == <<GITHUB_SECRET, LOGILICA_TOKEN>>
request == <<event_header, header_signature, payload>>
locals == <<attempt, source_prefix, finished_json, started_json>>
downstream == <<upload_calls, upload_oks, get_calls, post_calls, last_post, last_call>>
verification == <<verify_calls, verify_result>>

\* The handler ends with a response.
Return(status, msg) ==
    /\ pc' = "done"
    /\ response' = [status |-> status, msg |-> msg]

\* Mutant of Propagate: the exception is swallowed and the handler answers 204.
PropagateAsNoContent(err) ==
    /\ pc' = "done"
    /\ response' = [status |-> 204, msg |-> ""]

\* The exception err leaves the handler: the HTTP layer reports a server error.
Propagate(err) ==
    /\ pc' = "done"
    /\ response' = [status |-> 500, msg |-> err]

\* err is raised outside any try block.
Raise(err) ==
    /\ last_error' = err
    /\ Propagate(err)

\* A delivery arrives at POST /webhook.
Receive ==
    /\ pc = "idle"
    /\ \E h \in EventHeaders, sig \in Signatures :
         \E p \in Payloads(EventOf(h)) :
            /\ event_header' = h
            /\ header_signature' = sig
            /\ payload' = p
    /\ pc' = "ping"
    /\ UNCHANGED <<standalone, config, locals, downstream, verification, fetches, sleeps,
                   last_error, response>>

\* Mutant of HandlePing: a ping goes through signature validation like any
\* other event and is answered afterwards.
HandlePingVerified ==
    /\ pc = "ping"
    /\ pc' = "signature"
    /\ UNCHANGED <<standalone, config, request, locals, downstream, verification, fetches, sleeps,
                   last_error, response>>

\* Lines 57-66: the ping event is answered at once.
HandlePing ==
    /\ pc = "ping"
    /\ IF event = "ping"
         THEN Return(200, "Pong!")
         ELSE pc' = "signature" /\ UNCHANGED response
    /\ UNCHANGED <<standalone, config, request, locals, downstream, verification, fetches, sleeps,
                   last_error>>

\* Mutant of CheckSignature: the abort on an invalid signature is left out.
CheckSignatureNoAbort ==
    /\ pc = "signature"
    /\ IF header_signature = None
         THEN /\ Return(400, "Signature missing")
              /\ UNCHANGED <<verification, last_error>>
         ELSE LET v == verify_signature(GITHUB_SECRET, Body, header_signature) IN
              /\ verify_calls' = verify_calls + 1
              /\ verify_result' = v
              /\ IF v \in {"True", "False"}
                   THEN pc' = "route" /\ UNCHANGED <<response, last_error>>
                   ELSE Raise(v)
    /\ UNCHANGED <<standalone, config, request, locals, downstream, fetches, sleeps>>

\* Lines 68-74: signature validation.
CheckSignature ==
    /\ pc = "signature"
    /\ IF header_signature = None
         THEN /\ Return(400, "Signature missing")
              /\ UNCHANGED <<verification, last_error>>
         ELSE LET v == verify_signature(GITHUB_SECRET, Body, header_signature) IN
              /\ verify_calls' = verify_calls + 1
              /\ verify_result' = v
              /\ CASE v = "True" -> pc' = "route" /\ UNCHANGED <<response, last_error>>
                   [] v = "False" -> Return(400, "Invalid signature") /\ UNCHANGED last_error
                   [] OTHER -> Raise(v)
    /\ UNCHANGED <<standalone, config, request, locals, downstream, fetches, sleeps>>

\* Mutants of StatusRelevant: the state test, or the context test, left out.
StatusRelevantAnyState(p) == p.context \in {"ci/prow/e2e", "ci/prow/e2e-tests"}

StatusRelevantAnyContext(p) == p.state \in {s_success, s_failure}

\* Line 84: the filter of the status branch.
StatusRelevant(p) ==
    /\ p.context \in {"ci/prow/e2e", "ci/prow/e2e-tests"}
    /\ p.state \in {s_success, s_failure}

\* Mutants of CheckRunRelevant: the Konflux test, or the status test, left out.
CheckRunRelevantAnyName(cr) ==
    /\ cr.status = "completed"
    /\ cr.conclusion \in {Some(s_success), Some(s_failure)}

CheckRunRelevantAnyStatus(cr) ==
    /\ cr.conclusion \in {Some(s_success), Some(s_failure)}
    /\ \/ Contains(cr.name, s_konflux_name)
       \/ Contains(Lower(IF cr.details_url = None THEN <<>> ELSE Get(cr.details_url)),
                   s_konflux)

\* Lines 155-163: the filter of the check_run branch.
CheckRunRelevant(cr) ==
    /\ cr.status = "completed"
    /\ cr.conclusion \in {Some(s_success), Some(s_failure)}
    /\ \/ Contains(cr.name, s_konflux_name)
       \/ Contains(Lower(IF cr.details_url = None THEN <<>> ELSE Get(cr.details_url)),
                   s_konflux)

\* Line 105: the bucket every webhook download is issued against.
bucket_name == s_bucket

\* Mutant of original_id_status: the index -2 is used for the identifier too.
original_id_status_job(target_url) ==
    LET parts == Split(target_url, s_slash) IN parts[Len(parts) - 1]

\* Lines 98-102: the run identifier and the display name of a status event.
original_id_status(target_url) == Last(Split(target_url, s_slash))

name_of_payload_status(target_url) ==
    LET parts == Split(target_url, s_slash) IN
    s_openshift_ci \o Last(Split(parts[Len(parts) - 1], s_hyphen))

\* Lines 106-107: target_url.split("/gs/")[-1].split("/", 1), whose second
\* piece is the object path prefix.
SourcePieces(target_url) == SplitOnce(Last(Split(target_url, s_gs)), s_slash)

\* Lines 82-107 and 153-210: the branch on the event type, up to the first
\* downstream call.
Route ==
    /\ pc = "route"
    /\ CASE event = "status" /\ StatusRelevant(payload) ->
              IF Len(Split(payload.target_url, s_slash)) < 2
                     \/ Len(SourcePieces(payload.target_url)) < 2
                THEN Raise("IndexError") /\ UNCHANGED source_prefix
                ELSE /\ source_prefix' = SourcePieces(payload.target_url)[2]
                     /\ pc' = "fetch_finished"
                     /\ UNCHANGED <<response, last_error>>
         [] event = "check_run" /\ CheckRunRelevant(payload) ->
              IF payload.details_url = None
                THEN Raise("KeyError: details_url") /\ UNCHANGED source_prefix
                ELSE /\ pc' = "attempt"
                     /\ UNCHANGED <<response, last_error, source_prefix>>
         [] OTHER ->
              /\ pc' = "respond"
              /\ UNCHANGED <<response, last_error, source_prefix>>
    /\ UNCHANGED <<standalone, config, request, attempt, finished_json, started_json, downstream,
                   verification, fetches, sleeps>>

\* Mutant of FetchFinished: a failed download is swallowed and the pipeline
\* goes on with an empty document.
FetchFinishedSwallowed ==
    /\ pc = "fetch_finished"
    /\ \E r \in FetchResults(FinishedDocs) :
      /\ fetches' = Append(fetches, [bucket |-> bucket_name,
                                     path |-> source_prefix \o s_finished,
                                     result |-> r.kind])
      /\ finished_json' = IF r.kind = "ok" THEN r.doc
                          ELSE Some([timestamp |-> None, repo |-> None])
      /\ pc' = "fetch_started"
      /\ UNCHANGED <<response, last_error>>
    /\ UNCHANGED <<standalone, config, request, attempt, source_prefix, started_json, downstream,
                   verification, sleeps>>

\* Mutant of FetchFinished: the two downloads are written in the other order,
\* started.json being asked for first.
FetchFinishedAsksStarted ==
    /\ pc = "fetch_finished"
    /\ \E r \in FetchResults(FinishedDocs) :
      /\ fetches' = Append(fetches, [bucket |-> bucket_name,
                                     path |-> source_prefix \o s_started,
                                     result |-> r.kind])
      /\ CASE r.kind = "raise" -> Raise("GCS error") /\ UNCHANGED finished_json
           [] r.kind = "badjson" -> Raise("JSONDecodeError") /\ UNCHANGED finished_json
           [] OTHER -> /\ finished_json' = r.doc
                       /\ pc' = "fetch_started"
                       /\ UNCHANGED <<response, last_error>>
    /\ UNCHANGED <<standalone, config, request, attempt, source_prefix, started_json, downstream,
                   verification, sleeps>>

\* Lines 17-31 and 108-112: download and parse finished.json.
FetchFinished ==
    /\ pc = "fetch_finished"
    /\ \E r \in FetchResults(FinishedDocs) :
      /\ fetches' = Append(fetches, [bucket |-> bucket_name,
                                     path |-> source_prefix \o s_finished,
                                     result |-> r.kind])
      /\ CASE r.kind = "raise" -> Raise("GCS error") /\ UNCHANGED finished_json
           [] r.kind = "badjson" -> Raise("JSONDecodeError") /\ UNCHANGED finished_json
           [] OTHER -> /\ finished_json' = r.doc
                       /\ pc' = "fetch_started"
                       /\ UNCHANGED <<response, last_error>>
    /\ UNCHANGED <<standalone, config, request, attempt, source_prefix, started_json, downstream,
                   verification, sleeps>>

\* Lines 17-31 and 113-117: download and parse started.json.
FetchStarted ==
    /\ pc = "fetch_started"
    /\ \E r \in FetchResults(StartedDocs) :
      /\ fetches' = Append(fetches, [bucket |-> bucket_name,
                                     path |-> source_prefix \o s_started,
                                     result |-> r.kind])
      /\ CASE r.kind = "raise" -> Raise("GCS error") /\ UNCHANGED started_json
           [] r.kind = "badjson" -> Raise("JSONDecodeError") /\ UNCHANGED started_json
           [] OTHER -> /\ started_json' = r.doc
                       /\ pc' = "attempt"
                       /\ UNCHANGED <<response, last_error>>
    /\ UNCHANGED <<standalone, config, request, attempt, source_prefix, finished_json, downstream,
                   verification, sleeps>>

\* Lines 124-134: the exception raised while the arguments of the call are
\* evaluated inside the try block, "" when there is none.
StatusArgsError(f, st) ==
    IF st.timestamp = None THEN "KeyError: timestamp"
    ELSE IF f.timestamp = None THEN "KeyError: timestamp"
    ELSE IF f.repo = None THEN "KeyError: repo"
    ELSE ""

\* Mutant of StatusArgs: the two timestamps are taken from the wrong artifacts.
StatusArgsSwapped(p, f, st) ==
    [ details_url |-> p.target_url,
      conclusion |-> p.state,
      started_at_epoch |-> Get(f.timestamp),
      completed_at_epoch |-> Get(st.timestamp),
      repo_full_name |-> Get(f.repo),
      commit_sha |-> IF st.commit = None THEN s_unknown ELSE Get(st.commit),
      original_id |-> original_id_status(p.target_url),
      name_of_payload |-> name_of_payload_status(p.target_url) ]

\* Lines 124-134: the arguments of the status branch's upload call.
StatusArgs(p, f, st) ==
    [ details_url |-> p.target_url,
      conclusion |-> p.state,
      started_at_epoch |-> Get(st.timestamp),
      completed_at_epoch |-> Get(f.timestamp),
      repo_full_name |-> Get(f.repo),
      commit_sha |-> IF st.commit = None THEN s_unknown ELSE Get(st.commit),
      original_id |-> original_id_status(p.target_url),
      name_of_payload |-> name_of_payload_status(p.target_url) ]

\* Lines 188-210 and 217-227: the arguments of the check_run branch's call.
CheckRunArgs(cr) ==
    [ details_url |-> Get(cr.details_url),
      conclusion |-> Get(cr.conclusion),
      started_at_epoch |-> IsoToEpoch(cr.started_at),
      completed_at_epoch |-> IsoToEpoch(cr.completed_at),
      repo_full_name |-> cr.repo_full_name,
      commit_sha |-> cr.head_sha,
      original_id |-> Str(cr.id),
      name_of_payload |-> cr.name ]

\* Mutant of Failed: after the last attempt the error is logged and swallowed.
FailedSwallowed(err) ==
    /\ last_error' = err
    /\ pc' = IF attempt < max_retries - 1 THEN "backoff" ELSE "respond"
    /\ UNCHANGED response

\* Mutant of Failed: a ValueError is fatal and ends the loop at once.
FailedFatalOnValueError(err) ==
    /\ last_error' = err
    /\ IF attempt < max_retries - 1
            /\ err \notin {"ValueError: LOGILICA_TOKEN not set",
                            "ValueError: repository not found"}
         THEN pc' = "backoff" /\ UNCHANGED response
         ELSE Propagate(err)

\* Lines 138-150 and 233-245: the except clause of the retry loop.
Failed(err) ==
    /\ last_error' = err
    /\ IF attempt < max_retries - 1
         THEN pc' = "backoff" /\ UNCHANGED response
         ELSE Propagate(err)

\* The downstream answers that a call can observe: no GET is issued without
\* a token, and no POST unless the GET resolved the repository.
GetsSeen(token) ==
    IF TokenMissing(token) THEN {[kind |-> "raise", listing |-> <<>>]} ELSE GetResults

PostsSeen(token, a, get) ==
    IF upload_ci_build_data(token, a, get, "ok").posts = 0 THEN {"ok"} ELSE PostResults

\* What a call leaves behind for the properties: its outcome, whether the
\* listing it read names the repository, and the id of the first entry that does.
CallSummary(r, get, repo_full_name) ==
    LET named == /\ r.gets = 1
                 /\ \E i \in DOMAIN get.listing : get.listing[i].name = repo_full_name
    IN  [ err |-> r.err, gets |-> r.gets, posts |-> r.posts,
          get_kind |-> IF r.gets = 0 THEN "" ELSE get.kind,
          named |-> named,
          first_id |-> IF named
                         THEN get.listing[CHOOSE i \in DOMAIN get.listing :
                                            FirstNamed(get.listing, i, repo_full_name)].id
                         ELSE "" ]

\* Mutant of CallUpload: the repository id of an earlier attempt's POST is
\* kept and the listing is not read again.
CallUploadCached(args) ==
    \E get \in GetsSeen(LOGILICA_TOKEN) :
      \E post \in PostResults :
        LET fresh == upload_ci_build_data(LOGILICA_TOKEN, args, get, post)
            again == [ err |-> CASE post = "raise" -> "RequestException: POST"
                                 [] post = "http_error" -> "HTTPError: POST"
                                 [] OTHER -> "",
                       gets |-> 0, posts |-> 1,
                       sent |-> Some([url |-> Get(last_post).url,
                                      json |-> BuildPayload(args)]) ]
            r == IF last_post = None THEN fresh ELSE again
        IN
        /\ upload_calls' = upload_calls + 1
        /\ get_calls' = get_calls + r.gets
        /\ post_calls' = post_calls + r.posts
        /\ last_post' = IF r.sent = None THEN last_post ELSE r.sent
        /\ last_call' = CallSummary(r, get, args.repo_full_name)
        /\ IF r.err = ""
             THEN /\ upload_oks' = upload_oks + 1
                  /\ pc' = "respond"
                  /\ UNCHANGED <<response, last_error>>
             ELSE /\ UNCHANGED upload_oks
                  /\ Failed(r.err)

\* Mutant of CallUpload: the break after a successful call is missing, so the
\* loop goes on to its next iteration.
CallUploadNoBreak(args) ==
    \E get \in GetsSeen(LOGILICA_TOKEN) :
      \E post \in PostsSeen(LOGILICA_TOKEN, args, get) :
        LET r == upload_ci_build_data(LOGILICA_TOKEN, args, get, post) IN
        /\ upload_calls' = upload_calls + 1
        /\ get_calls' = get_calls + r.gets
        /\ post_calls' = post_calls + r.posts
        /\ last_post' = IF r.sent = None THEN last_post ELSE r.sent
        /\ last_call' = CallSummary(r, get, args.repo_full_name)
        /\ IF r.err = ""
             THEN /\ upload_oks' = upload_oks + 1
                  /\ pc' = IF attempt < max_retries - 1 THEN "backoff" ELSE "respond"
                  /\ UNCHANGED <<response, last_error>>
             ELSE /\ UNCHANGED upload_oks
                  /\ Failed(r.err)

\* Lines 121-137 and 214-232: one iteration of the retry loop calling
\* upload_ci_build_data with args.
CallUpload(args) ==
    \E get \in GetsSeen(LOGILICA_TOKEN) :
      \E post \in PostsSeen(LOGILICA_TOKEN, args, get) :
        \E r \in {upload_ci_build_data(LOGILICA_TOKEN, args, get, post)} :
        /\ upload_calls' = upload_calls + 1
        /\ get_calls' = get_calls + r.gets
        /\ post_calls' = post_calls + r.posts
        /\ last_post' = IF r.sent = None THEN last_post ELSE r.sent
        /\ last_call' = CallSummary(r, get, args.repo_full_name)
        /\ IF r.err = ""
             THEN /\ upload_oks' = upload_oks + 1
                  /\ pc' = "respond"
                  /\ UNCHANGED <<response, last_error>>
             ELSE /\ UNCHANGED upload_oks
                  /\ Failed(r.err)

\* Lines 121-150: one iteration of the status branch's retry loop.
AttemptStatus ==
    /\ pc = "attempt"
    /\ event = "status"
    /\ LET f == Get(finished_json)
           st == Get(started_json)
       IN  IF StatusArgsError(f, st) # ""
             THEN Failed(StatusArgsError(f, st)) /\ UNCHANGED downstream
             ELSE CallUpload(StatusArgs(payload, f, st))
    /\ UNCHANGED <<standalone, config, request, locals, verification, fetches, sleeps>>

\* Lines 214-245: one iteration of the check_run branch's retry loop.
AttemptCheckRun ==
    /\ pc = "attempt"
    /\ event = "check_run"
    /\ CallUpload(CheckRunArgs(payload))
    /\ UNCHANGED <<standalone, config, request, locals, verification, fetches, sleeps>>

\* Mutant of Backoff: the artifacts are downloaded again before the next
\* iteration of a status event.
BackoffRefetch ==
    /\ pc = "backoff"
    /\ sleeps' = Append(sleeps, retry_delay)
    /\ attempt' = attempt + 1
    /\ pc' = IF event = "status" THEN "fetch_finished" ELSE "attempt"
    /\ UNCHANGED <<standalone, config, request, source_prefix, finished_json, started_json,
                   downstream, verification, fetches, last_error, response>>

\* Mutant of Backoff: the delay grows with the attempt number.
BackoffGrowing ==
    /\ pc = "backoff"
    /\ sleeps' = Append(sleeps, retry_delay * (attempt + 1))
    /\ attempt' = attempt + 1
    /\ pc' = "attempt"
    /\ UNCHANGED <<standalone, config, request, source_prefix, finished_json, started_json,
                   downstream, verification, fetches, last_error, response>>

\* Mutant of Backoff: the next iteration starts without sleeping.
BackoffNoSleep ==
    /\ pc = "backoff"
    /\ attempt' = attempt + 1
    /\ pc' = "attempt"
    /\ UNCHANGED <<standalone, config, request, source_prefix, finished_json, started_json,
                   downstream, verification, fetches, sleeps, last_error, response>>

\* Mutant of Backoff: the loop does not count its iterations, so a failing
\* upload is retried without end.
BackoffSameAttempt ==
    /\ pc = "backoff"
    /\ sleeps' = Append(sleeps, retry_delay)
    /\ pc' = "attempt"
    /\ UNCHANGED <<standalone, config, request, locals, downstream, verification, fetches,
                   last_error, response>>

\* Lines 144-146 and 239-241: time.sleep(retry_delay), then the next iteration.
Backoff ==
    /\ pc = "backoff"
    /\ sleeps' = Append(sleeps, retry_delay)
    /\ attempt' = attempt + 1
    /\ pc' = "attempt"
    /\ UNCHANGED <<standalone, config, request, source_prefix, finished_json, started_json,
                   downstream, verification, fetches, last_error, response>>

\* Lines 247-261: the handler logs and answers 204.
Respond ==
    /\ pc = "respond"
    /\ Return(204, "")
    /\ UNCHANGED <<standalone, config, request, locals, downstream, verification, fetches, sleeps,
                   last_error>>

Next ==
    \/ Receive
    \/ HandlePing
    \/ CheckSignature
    \/ Route
    \/ FetchFinished
    \/ FetchStarted
    \/ AttemptStatus
    \/ AttemptCheckRun
    \/ Backoff
    \/ Respond

Spec == Init /\ [][Next]_vars

\* The handler is one synchronous function (lines 54-261): once entered, the
\* interpreter runs it statement by statement, and every call it makes to a
\* collaborator (requests.get, requests.post, time.sleep) returns or raises.
\* A step that can be taken is therefore eventually taken.
SpecLive == Spec /\ WF_vars(Next)

\* -------------------------------------------------------------------- claims

NoDownstream ==
    /\ fetches = <<>>
    /\ upload_calls = 0
    /\ get_calls = 0
    /\ post_calls = 0
    /\ sleeps = <<>>

NoContent == [status |-> 204, msg |-> ""]

\* C1: once an upload call has succeeded after N failed calls (N < 7), exactly
\* N + 1 calls and N sleeps have been made, the loop is over (no further
\* attempt can start) and the handler answers 204; status and check_run alike.
C1_RetryThenSuccess ==
    upload_oks >= 1 =>
        /\ upload_oks = 1
        /\ upload_calls = attempt + 1
        /\ upload_calls - 1 < 7
        /\ Len(sleeps) = upload_calls - 1
        /\ pc \in {"respond", "done"}
        /\ pc = "done" => response = NoContent

C1_Witness ==
    /\ pc = "done"
    /\ event = "status"
    /\ upload_oks = 1
    /\ upload_calls = 7
    /\ Len(sleeps) = 6
    /\ response = NoContent

\* C2: when every upload call of a delivery has failed and the handler is
\* over, exactly 7 calls and 6 sleeps were made and the error of the 7th call
\* has left the handler: the outcome is that error, never a 204.
C2_AllAttemptsFail ==
    (pc = "done" /\ upload_calls >= 1 /\ upload_oks = 0) =>
        /\ upload_calls = 7
        /\ Len(sleeps) = 6
        /\ last_call.err # ""
        /\ response = [status |-> 500, msg |-> last_call.err]

C2_Witness ==
    /\ pc = "done"
    /\ event = "check_run"
    /\ upload_calls = 7
    /\ upload_oks = 0
    /\ response = [status |-> 500, msg |-> "HTTPError: POST"]

\* C3: a non-ping delivery without signature header ends 400 "Signature
\* missing", one whose verification returned False ends 400 "Invalid
\* signature", both with no fetch, lookup, upload or sleep; and no downstream
\* call is ever made unless verify_signature has returned True.
C3_AuthFailure ==
    /\ (pc = "done" /\ event # "ping" /\ header_signature = None) =>
          /\ response = [status |-> 400, msg |-> "Signature missing"]
          /\ verify_calls = 0
          /\ NoDownstream
    /\ (pc = "done" /\ event # "ping" /\ verify_result = "False") =>
          /\ response = [status |-> 400, msg |-> "Invalid signature"]
          /\ NoDownstream
    /\ ~NoDownstream => verify_result = "True"

C3_Witness ==
    /\ pc = "done"
    /\ event = "status"
    /\ StatusRelevant(payload)
    /\ header_signature = Some(<<Text("sha1"), Digest("s2", Body)>>)
    /\ verify_result = "False"
    /\ response.status = 400

\* C4: a ping delivery is answered 200 Pong! whatever its signature header,
\* and verify_signature, the fetcher and the uploader are never called.
C4_Ping ==
    event_header = Some("ping") =>
        /\ pc \in {"ping", "done"}
        /\ verify_calls = 0
        /\ NoDownstream
        /\ pc = "done" => response = [status |-> 200, msg |-> "Pong!"]

C4_Witness ==
    /\ pc = "done"
    /\ event_header = Some("ping")
    /\ header_signature = Some(<<Text("sha1"), Digest("s1", OtherBody)>>)
    /\ GITHUB_SECRET = Some("s1")
    /\ response = [status |-> 200, msg |-> "Pong!"]

\* C5: a verified status event with an allow-listed context and a state other
\* than success or failure causes no fetch and no upload and is answered 204.
C5_StatusIgnoredState ==
    ( /\ event = "status"
      /\ verify_result = "True"
      /\ payload.context \in {"ci/prow/e2e", "ci/prow/e2e-tests"}
      /\ payload.state \notin {s_success, s_failure} ) =>
        /\ NoDownstream
        /\ pc = "done" => response = NoContent

C5_Witness ==
    /\ pc = "done"
    /\ event = "status"
    /\ verify_result = "True"
    /\ payload.context = "ci/prow/e2e"
    /\ payload.state = s_pending
    /\ response = NoContent

\* C6: a verified status event whose context is not allow-listed causes no
\* fetch and no upload, whatever its state, and is answered 204.
C6_StatusIgnoredContext ==
    ( /\ event = "status"
      /\ verify_result = "True"
      /\ payload.context \notin {"ci/prow/e2e", "ci/prow/e2e-tests"} ) =>
        /\ NoDownstream
        /\ pc = "done" => response = NoContent

C6_Witness ==
    /\ pc = "done"
    /\ event = "status"
    /\ verify_result = "True"
    /\ payload.context = "ci/prow/unit"
    /\ payload.state = s_success
    /\ response = NoContent

\* C7: in the status pipeline the retry loop is entered, and an upload call
\* or repository lookup made, only after the finished.json and started.json
\* downloads have both succeeded; a delivery with a failed download ends with
\* that failure propagated and without any upload call.
C7_FetchBeforeUpload ==
    event = "status" =>
        /\ (upload_calls > 0 \/ get_calls > 0 \/ post_calls > 0
                \/ pc \in {"attempt", "backoff"}) =>
              /\ Len(fetches) = 2
              /\ fetches[1].path = source_prefix \o s_finished
              /\ fetches[2].path = source_prefix \o s_started
              /\ \A i \in 1..2 : fetches[i].result = "ok"
        /\ (pc = "done" /\ \E i \in DOMAIN fetches : fetches[i].result # "ok") =>
              /\ response.status = 500
              /\ response.msg \in {"GCS error", "JSONDecodeError"}
              /\ upload_calls = 0
              /\ get_calls = 0

C7_Witness ==
    /\ pc = "done"
    /\ event = "status"
    /\ Len(fetches) = 2
    /\ fetches[1].result = "ok"
    /\ fetches[2].result = "raise"
    /\ upload_calls = 0
    /\ response = [status |-> 500, msg |-> "GCS error"]

\* C8 as stated: with the token absent the pipeline makes exactly one upload
\* attempt and no backoff sleep.
C8_Original ==
    (LOGILICA_TOKEN \in {None, Some("")} /\ pc = "done" /\ upload_calls >= 1) =>
        /\ upload_calls = 1
        /\ sleeps = <<>>
        /\ get_calls = 0
        /\ post_calls = 0

\* C8 as amended: with the token absent every upload call fails with the
\* configuration error before any repository lookup or POST, and the failure
\* is retried like any other: 7 calls and 6 sleeps, then the error propagates.
C8_TokenMissingRetried ==
    LOGILICA_TOKEN \in {None, Some("")} =>
        /\ get_calls = 0
        /\ post_calls = 0
        /\ upload_oks = 0
        /\ upload_calls >= 1 => last_call.err = "ValueError: LOGILICA_TOKEN not set"
        /\ (pc = "done" /\ upload_calls >= 1) =>
              /\ upload_calls = 7
              /\ Len(sleeps) = 6
              /\ response = [status |-> 500, msg |-> "ValueError: LOGILICA_TOKEN not set"]

C8_Witness ==
    /\ pc = "done"
    /\ LOGILICA_TOKEN = None
    /\ upload_calls = 7
    /\ Len(sleeps) = 6
    /\ response.status = 500

\* C9: whatever the failure of an attempt, while it is not the 7th the loop
\* goes to the backoff sleep without ending the handler, and the sleep is
\* followed by the next attempt; so a failure ends the loop only at the 7th.
C9_UniformRetry ==
    /\ [][ (pc = "attempt" /\ pc' \notin {"attempt", "respond"} /\ attempt < 6) =>
              (pc' = "backoff" /\ last_error' # "" /\ response' = response) ]_vars
    /\ [][ pc = "backoff" =>
              (pc' = "attempt" /\ attempt' = attempt + 1
                 /\ Len(sleeps') = Len(sleeps) + 1) ]_vars
    /\ [](pc = "done" /\ (upload_calls >= 1 \/ sleeps # <<>>) /\ upload_oks = 0
             => attempt = 6)

C9_Witness ==
    /\ pc = "backoff"
    /\ attempt = 5
    /\ last_error = "ValueError: repository not found"
    /\ Len(sleeps) = 5

\* C10: an upload call whose repository listing has no entry named
\* repo_full_name fails with the repository-not-found error and issues no
\* POST, and a call whose listing request fails issues no POST either.
C10_NoPostWithoutRepo ==
    /\ (last_call.get_kind = "ok" /\ ~last_call.named) =>
          /\ last_call.err = "ValueError: repository not found"
          /\ last_call.posts = 0
    /\ last_call.get_kind \in {"raise", "http_error"} =>
          /\ last_call.err \in {"RequestException: GET", "HTTPError: GET"}
          /\ last_call.posts = 0
    /\ post_calls = 0 => last_post = None

C10_Witness ==
    /\ upload_calls = 1
    /\ last_call.get_kind = "ok"
    /\ ~last_call.named
    /\ last_call.err = "ValueError: repository not found"
    /\ post_calls = 0

\* C12: every upload attempt resolves the repository again: with the token
\* configured the handler has issued as many listing GETs as it has made upload
\* calls, and the POST of a call goes to the id of the first entry named
\* repo_full_name in the listing that this same call read.
C12_ResolvedEveryAttempt ==
    /\ ~(LOGILICA_TOKEN = None \/ LOGILICA_TOKEN = Some("")) => get_calls = upload_calls
    /\ last_call.posts = 1 =>
          /\ last_call.gets = 1
          /\ last_post # None
          /\ Get(last_post).url = CreateUrl(last_call.first_id)

\* A second attempt that read a second listing and POSTed to the id found there.
C12_Witness ==
    /\ LOGILICA_TOKEN = Some("tok")
    /\ attempt = 1
    /\ upload_calls = 2
    /\ get_calls = 2
    /\ post_calls = 2
    /\ last_call.first_id = "r2"
    /\ Get(last_post).url = CreateUrl("r2")

\* ------------------------------------------------- direct calls of the uploader

\* Longest repository listing in a direct call.
MaxDirectListLen == 3

s_SUCCESS == <<"S", "U", "C", "C", "E", "S", "S">>
s_Success == <<"S", "u", "c", "c", "e", "s", "s">>
s_Failure == <<"F", "a", "i", "l", "u", "r", "e">>
s_fAILURE == <<"f", "A", "I", "L", "U", "R", "E">>
repo_Org == <<"O", "r", "g", "/", "R", "e", "p", "o">>
repo_org2 == <<"o", "r", "g", "/", "r", "e", "p", "o", "2">>
repo_prefix == <<"o", "r", "g">>

\* Keyword arguments of a direct call, as the tests and the drivers pass them.
DirectArgs ==
    [ details_url : {durl_plain},
      conclusion : {s_success, s_SUCCESS, s_Failure, s_fAILURE},
      started_at_epoch : {1},
      completed_at_epoch : {2},
      repo_full_name : {repo_org, repo_other},
      commit_sha : {<<"a", "b", "c">>},
      original_id : {<<"4", "5">>},
      name_of_payload : {name_build} ]

\* Listings that also hold names differing from repo_org in case only, longer
\* than it, and shorter than it.
DirectRepoEntries ==
    RepoEntries \cup { [id |-> "r4", name |-> repo_Org], [id |-> "r5", name |-> repo_org2],
                       [id |-> "r6", name |-> repo_prefix] }
DirectListings == UNION {[1..n -> DirectRepoEntries] : n \in 0..MaxDirectListLen}

DirectGets ==
    {[kind |-> "raise", listing |-> <<>>], [kind |-> "http_error", listing |-> <<>>]}
        \cup {[kind |-> "ok", listing |-> l] : l \in DirectListings}

\* Secrets of direct calls of verify_signature.
DirectSecrets == {None, Some("s1"), Some("s2")}

InitUpload ==
    /\ GITHUB_SECRET \in DirectSecrets
    /\ LOGILICA_TOKEN \in Tokens
    /\ WebhookIdle
    /\ direct_call = NoDirectCall
    /\ CrawlerIdle(<<>>)
    /\ PrUploaderIdle
    /\ parked = NoDelivery

\* upload_ci_build_data is called once with args; get and post are what the
\* downstream API does in this call.
DirectUpload ==
    /\ direct_call = NoDirectCall
    /\ \E args \in DirectArgs :
         \E get \in IF TokenMissing(LOGILICA_TOKEN)
                       THEN {[kind |-> "raise", listing |-> <<>>]} ELSE DirectGets :
           \E post \in PostsSeen(LOGILICA_TOKEN, args, get) :
             direct_call' = [ op |-> "upload", args |-> args, get |-> get, post |-> post,
                              result |-> upload_ci_build_data(LOGILICA_TOKEN, args, get, post) ]
    /\ UNCHANGED <<crawler, pr_uploader, parked, config, request, pc, locals, downstream, verification, fetches,
                   sleeps, last_error, response>>

\* The direct call issued the listing GET and got a listing back.
DirectListed ==
    /\ direct_call.op = "upload"
    /\ direct_call.result.gets = 1
    /\ direct_call.get.kind = "ok"

\* C11 as stated: the id of the first entry whose name equals repo_full_name is
\* the id the POST goes to, whatever that id is.
C11_Original ==
    DirectListed =>
        \A i \in DOMAIN direct_call.get.listing :
            FirstNamed(direct_call.get.listing, i, direct_call.args.repo_full_name) =>
                /\ direct_call.result.sent # None
                /\ Get(direct_call.result.sent).url
                       = CreateUrl(direct_call.get.listing[i].id)

\* C11: the first entry of the listing whose name is exactly repo_full_name
\* decides: when its id is not empty the POST goes to /ci_build/<that id>/create,
\* whatever entries come before or after it; when its id is empty, or no entry
\* has that exact name, the call fails with "repository not found" and no POST
\* is issued.
C11_FirstExactMatch ==
    DirectListed =>
        LET listing == direct_call.get.listing
            repo == direct_call.args.repo_full_name
            r == direct_call.result
            notFound == r.sent = None /\ r.posts = 0
                            /\ r.err = "ValueError: repository not found"
        IN  /\ \A i \in DOMAIN listing :
                  FirstNamed(listing, i, repo) =>
                      IF listing[i].id # ""
                        THEN /\ r.sent # None
                             /\ r.posts = 1
                             /\ Get(r.sent).url = CreateUrl(listing[i].id)
                        ELSE notFound
            /\ (\A i \in DOMAIN listing : listing[i].name # repo) => notFound

\* A listing with a near miss before the match and a second match after it.
C11_Witness ==
    /\ DirectListed
    /\ direct_call.args.repo_full_name = repo_org
    /\ direct_call.get.listing = << [id |-> "r4", name |-> repo_Org],
                                     [id |-> "r1", name |-> repo_org],
                                     [id |-> "r2", name |-> repo_org] >>
    /\ direct_call.result.sent # None
    /\ Get(direct_call.result.sent).url = CreateUrl("r1")

\* C13: the body of every POST is a list of exactly one build, with exactly one
\* stage, with exactly one job; the build, the stage and the job carry the
\* call's name, startedAt and completedAt, the status "Completed", and as
\* conclusion the input conclusion capitalized ("Success" or "Failure"),
\* however the input is cased.
C13_PayloadShape ==
    (direct_call.op = "upload" /\ direct_call.result.sent # None) =>
        LET a == direct_call.args
            json == Get(direct_call.result.sent).json
            expected == IF a.conclusion \in {s_success, s_SUCCESS} THEN s_Success
                        ELSE s_Failure
            Carries(x) == /\ x.name = a.name_of_payload
                          /\ x.startedAt = a.started_at_epoch
                          /\ x.completedAt = a.completed_at_epoch
                          /\ x.status = "Completed"
                          /\ x.conclusion = expected
        IN  /\ Len(json) = 1
            /\ Len(json[1].stages) = 1
            /\ Len(json[1].stages[1].jobs) = 1
            /\ Carries(json[1])
            /\ Carries(json[1].stages[1])
            /\ Carries(json[1].stages[1].jobs[1])

\* A POST whose input conclusion is "fAILURE".
C13_Witness ==
    /\ direct_call.op = "upload"
    /\ direct_call.args.conclusion = s_fAILURE
    /\ direct_call.result.posts = 1
    /\ Get(direct_call.result.sent).json[1].stages[1].jobs[1].conclusion = s_Failure

\* The part of the model's target URLs after /gs/<bucket>/.
rest_prow == <<"p", "r", "/", "e", "2", "e", "-", "t", "/", "4", "5">>
rest_other_bucket == <<"p", "r", "/", "e", "2", "e", "-", "t", "/", "4", "6">>

C15_BucketFromUrl ==
    event = "status" =>
        \A i \in DOMAIN fetches :
            fetches[i].bucket = SplitOnce(Last(Split(payload.target_url, s_gs)), s_slash)[1]

\* The check run of the delivery is a completed Konflux run that succeeded or
\* failed, told by the inputs: name_konflux holds "Red Hat Konflux" and
\* durl_konflux holds "KonFlux".
KonfluxRun ==
    /\ payload.status = "completed"
    /\ payload.conclusion \in {Some(s_success), Some(s_failure)}
    /\ payload.name = name_konflux \/ payload.details_url = Some(durl_konflux)

\* The delivery is of no interest: an event other than ping, status and
\* check_run, a status that is not a finished e2e run, a check run that is
\* not a finished Konflux run.
FilteredOut ==
    CASE event = "ping" -> FALSE
      [] event = "status" -> ~ /\ payload.context \in {"ci/prow/e2e", "ci/prow/e2e-tests"}
                               /\ payload.state \in {s_success, s_failure}
      [] event = "check_run" -> ~KonfluxRun
      [] OTHER -> TRUE

\* C16: a correctly signed delivery that is filtered out causes no artifact
\* fetch, no repository lookup and no upload, raises nothing, and is answered
\* with 204 and an empty body.
C16_FilteredOut ==
    (verify_result = "True" /\ FilteredOut) =>
        /\ fetches = <<>>
        /\ upload_calls = 0
        /\ get_calls = 0
        /\ post_calls = 0
        /\ sleeps = <<>>
        /\ last_error = ""
        /\ pc = "done" => response = [status |-> 204, msg |-> ""]

\* A signed push event answered with 204.
C16_Witness ==
    /\ event = "push"
    /\ verify_result = "True"
    /\ pc = "done"
    /\ response.status = 204
    /\ upload_calls = 0

\* C17: a check_run event never issues an artifact fetch, and an upload is
\* attempted for it only when the run is completed, its conclusion is success
\* or failure, and its name holds "Red Hat Konflux" or its details URL holds
\* "konflux" in any casing.
C17_CheckRunFilter ==
    event = "check_run" =>
        /\ fetches = <<>>
        /\ (upload_calls > 0 \/ pc \in {"attempt", "backoff"}) => KonfluxRun

\* A check run told as Konflux by its details URL only, uploaded.
C17_Witness ==
    /\ event = "check_run"
    /\ payload.name = name_build
    /\ payload.details_url = Some(durl_konflux)
    /\ upload_oks = 1
    /\ fetches = <<>>

\* ------------------------------------------------------------ prow_crawler.py

\* Most matches of the build pattern in a job history page, and most runs of
\* the crawler over one tracker file.
MaxMatches == 3
MaxRuns == 2

s_gcsweb ==
    <<"h", "t", "t", "p", "s", ":", "/", "/", "g", "c", "s", "w", "e", "b", "-", "c", "i",
      ".", "a", "p", "p", "s", ".", "c", "i", ".", "l", "2", "s", "4", ".", "p", "1",
      ".", "o", "p", "e", "n", "s", "h", "i", "f", "t", "a", "p", "p", "s", ".", "c",
      "o", "m", "/", "g", "c", "s", "/", "t", "e", "s", "t", "-", "p", "l", "a", "t",
      "f", "o", "r", "m", "-", "r", "e", "s", "u", "l", "t", "s", "/", "l", "o", "g",
      "s", "/">>
s_logs == <<"l", "o", "g", "s", "/">>
s_openshift_unknown == <<"o", "p", "e", "n", "s", "h", "i", "f", "t", "/", "u", "n", "k",
                         "n", "o", "w", "n">>
s_FAILURE == <<"F", "A", "I", "L", "U", "R", "E">>
s_FAILED == <<"F", "A", "I", "L", "E", "D">>

\* Inputs: the job of --job-url and the build ids its history page shows.
job_name == <<"e", "2", "e", "-", "c", "i", "-", "d", "a", "i", "l", "y">>
id_1 == <<"7", "1">>
id_2 == <<"7", "2">>
BuildIds == {id_1, id_2}

\* The matches of the build pattern in the history page, in page order.
Histories == UNION {[1..n -> BuildIds] : n \in 0..MaxMatches}
Limits == {-1, 1, 2}

\* A JSON value that is a string, and one that is not.
JString(s) == [type |-> "string", str |-> s]
JNumber == [type |-> "number", str |-> <<>>]

\* The finished.json of a build as the crawler reads it: a passed build, a
\* failed build, a document without any of the fields, and one whose result
\* is no string.
CrawlFinishedDocs ==
    { [result |-> Some(JString(s_SUCCESS)), timestamp |-> Some(2), repo |-> Some(repo_org)],
      [result |-> Some(JString(s_failure)), timestamp |-> Some(2), repo |-> Some(repo_org)],
      [result |-> None, timestamp |-> None, repo |-> None],
      [result |-> Some(JNumber), timestamp |-> Some(2), repo |-> Some(repo_org)] }

\* Its started.json: with and without the fields.
CrawlStartedDocs ==
    { [timestamp |-> Some(1), commit |-> Some(<<"a", "b", "c">>)],
      [timestamp |-> None, commit |-> None] }

\* What the two downloads and the two json.loads of fetch_build_data do.
CrawlFetches ==
    { [kind |-> k, finished |-> None, started |-> None] :
          k \in {"raise_finished", "raise_started", "badjson"} }
      \cup { [kind |-> "ok", finished |-> Some(f), started |-> Some(st)] :
                 f \in CrawlFinishedDocs, st \in CrawlStartedDocs }

\* What GET /repositories does in a crawler upload: the listings of at most
\* one entry.
CrawlGets == {g \in GetResults : Len(g.listing) <= 1}

Range(q) == {q[k] : k \in DOMAIN q}

\* str.upper()
Upper(s) == [k \in DOMAIN s |-> UpperChar(s[k])]

\* Lines 108-116: duplicates removed, the order of first appearance kept.
RECURSIVE Dedup(_, _)
Dedup(matches, builds) ==
    IF matches = <<>> THEN builds
    ELSE Dedup(Tail(matches),
               IF Head(matches) \in Range(builds) THEN builds
               ELSE Append(builds, Head(matches)))

parse_build_ids_from_html(matches) == Dedup(matches, <<>>)

\* q[:n] of a Python list.
SliceTo(q, n) ==
    LET m == IF n >= 0 THEN (IF n < Len(q) THEN n ELSE Len(q))
             ELSE (IF Len(q) + n > 0 THEN Len(q) + n ELSE 0)
    IN  [k \in 1..m |-> q[k]]

construct_gcs_url(build_id) == s_gcsweb \o job_name \o s_slash \o build_id \o s_slash

\* The downloads fetch_build_data issues and, when both artifacts arrive and
\* parse, the build data it returns (optional).
fetch_build_data(build_id, fetch) ==
    LET base_path == s_logs \o job_name \o s_slash \o build_id
        first == [bucket |-> s_bucket, path |-> base_path \o s_finished]
        second == [bucket |-> s_bucket, path |-> base_path \o s_started]
    IN  [ fetched |-> IF fetch.kind = "raise_finished" THEN <<first>> ELSE <<first, second>>,
          data |-> IF fetch.kind = "ok"
                     THEN Some([ finished |-> Get(fetch.finished),
                                 started |-> Get(fetch.started),
                                 gcs_url |-> construct_gcs_url(build_id) ])
                     ELSE None ]

\* determine_build_status: err is the exception that leaves it, "" if none.
determine_build_status(finished_doc) ==
    LET result == IF finished_doc.result = None THEN JString(<<>>)
                  ELSE Get(finished_doc.result)
    IN  IF result.type # "string"
          THEN [err |-> "AttributeError", value |-> <<>>]
        ELSE IF Upper(result.str) = s_SUCCESS
          THEN [err |-> "", value |-> s_success]
        ELSE IF Upper(result.str) \in {s_FAILURE, s_FAILED}
          THEN [err |-> "", value |-> s_failure]
        ELSE [err |-> "", value |-> s_failure]

extract_repo_info(finished_doc, started_doc) ==
    [ repo_full_name |-> IF finished_doc.repo = None THEN s_openshift_unknown
                         ELSE Get(finished_doc.repo),
      commit_sha |-> IF started_doc.commit = None THEN s_unknown
                     ELSE Get(started_doc.commit) ]

\* Lines 240-252: the arguments of the crawler's upload call.
CrawlArgs(build_id, data, conclusion) ==
    LET repo_info == extract_repo_info(data.finished, data.started) IN
    [ details_url |-> data.gcs_url,
      conclusion |-> conclusion,
      started_at_epoch |-> IF data.started.timestamp = None THEN 0
                           ELSE Get(data.started.timestamp),
      completed_at_epoch |-> IF data.finished.timestamp = None THEN 0
                             ELSE Get(data.finished.timestamp),
      repo_full_name |-> repo_info.repo_full_name,
      commit_sha |-> repo_info.commit_sha,
      original_id |-> build_id,
      name_of_payload |-> s_openshift_ci \o Last(Split(job_name, s_hyphen)) ]

\* Mutant of process_build: the dry-run branch is missing, the upload call is
\* made in every run.
process_build_no_dry_branch(build_id, dry, fetch, get, post) ==
    LET fd == fetch_build_data(build_id, fetch)
        quiet == [ fetched |-> fd.fetched, ret |-> FALSE, raised |-> "", outcome |-> "",
                   uploads |-> 0, gets |-> 0, posts |-> 0, err |-> "" ]
    IN  IF fd.data = None
          THEN [quiet EXCEPT !.outcome = "fetch_failed"]
        ELSE LET data == Get(fd.data)
                 status == determine_build_status(data.finished)
             IN  IF status.err # ""
                   THEN [quiet EXCEPT !.outcome = "raised", !.raised = status.err]
                 ELSE LET r == upload_ci_build_data(LOGILICA_TOKEN,
                                   CrawlArgs(build_id, data, status.value), get, post)
                      IN  [ quiet EXCEPT
                              !.outcome = IF r.err = "" THEN "uploaded" ELSE "upload_failed",
                              !.ret = (r.err = ""),
                              !.uploads = 1, !.gets = r.gets, !.posts = r.posts,
                              !.err = r.err ]

\* process_build for one build: what it fetched, whether it returned True,
\* the exception that left it (raised, "" if it returned), and what its
\* upload call did.
process_build(build_id, dry, fetch, get, post) ==
    LET fd == fetch_build_data(build_id, fetch)
        quiet == [ fetched |-> fd.fetched, ret |-> FALSE, raised |-> "", outcome |-> "",
                   uploads |-> 0, gets |-> 0, posts |-> 0, err |-> "" ]
    IN  IF fd.data = None
          THEN [quiet EXCEPT !.outcome = "fetch_failed"]
        ELSE LET data == Get(fd.data)
                 status == determine_build_status(data.finished)
             IN  IF status.err # ""
                   THEN [quiet EXCEPT !.outcome = "raised", !.raised = status.err]
                 ELSE IF dry
                   THEN [quiet EXCEPT !.outcome = "dry_run", !.ret = TRUE]
                 ELSE LET r == upload_ci_build_data(LOGILICA_TOKEN,
                                   CrawlArgs(build_id, data, status.value), get, post)
                      IN  [ quiet EXCEPT
                              !.outcome = IF r.err = "" THEN "uploaded" ELSE "upload_failed",
                              !.ret = (r.err = ""),
                              !.uploads = 1, !.gets = r.gets, !.posts = r.posts,
                              !.err = r.err ]

\* Mutant of ShouldSave: the build is recorded whenever process_build
\* returned True, dry run or not.
ShouldSaveInDryRun(ret, dry) == ret

\* Lines 317-320: the build is recorded when process_build returned True and
\* the run is not a dry run.
ShouldSave(ret, dry) == ret /\ ~dry

InitCrawler ==
    /\ GITHUB_SECRET = None
    /\ LOGILICA_TOKEN \in Tokens
    /\ WebhookIdle
    /\ direct_call = NoDirectCall
    /\ \E lines \in {<<>>, <<id_1>>} : CrawlerIdle(lines)
    /\ PrUploaderIdle
    /\ parked = NoDelivery

\* Lines 295-296: what parse_build_ids_from_html makes of the history pages.
ParsedPages == {parse_build_ids_from_html(m) : m \in Histories}

\* Lines 260-313: main up to its loop.  read is what opening the tracker file
\* does, html the build ids parsed from the history page (None when the page
\* could not be fetched).
StartRun ==
    /\ crawler_pc \in {"idle", "exited", "crashed"}
    /\ runs < MaxRuns
    /\ \E dry \in BOOLEAN, lim \in Limits, html \in {None} \cup {Some(b) : b \in ParsedPages},
          read \in IF tracker_file = <<>> THEN {"ok"} ELSE {"ok", "fail"} :
         LET loaded == IF read = "ok" THEN Range(tracker_file) ELSE {}
             parsed == IF html = None THEN <<>> ELSE Get(html)
             new_builds == SelectSeq(parsed, LAMBDA b : b \notin loaded)
         IN  /\ dry_run' = dry
             /\ all_builds' = parsed
             /\ limit' = lim
             /\ processed_builds' = loaded
             /\ builds_to_process' = SliceTo(new_builds, lim)
             /\ crawler_pc' = IF new_builds = <<>> THEN "exited" ELSE "loop"
    /\ runs' = runs + 1
    /\ success_count' = 0
    /\ item_log' = <<>>
    /\ tracker_at_start' = tracker_file
    /\ uploaded_before' = uploaded_before
           \cup {item_log[k].id : k \in {n \in DOMAIN item_log : item_log[n].outcome = "uploaded"}}
    /\ UNCHANGED <<tracker_file, direct_call, pr_uploader, parked, config, request, pc, locals, downstream,
                   verification, fetches, sleeps, last_error, response>>

\* Lines 314-324: one iteration of main's loop: process_build, the count, the
\* tracker line, the pause.  write is what appending to the tracker file does.
\* The downstream API is only asked when process_build comes to its upload
\* call, the tracker file only written when the build is to be recorded.
ProcessItem ==
    /\ crawler_pc = "loop"
    /\ Len(item_log) < Len(builds_to_process)
    /\ \E i \in {Len(item_log) + 1}, fetch \in CrawlFetches, get \in CrawlGets,
          post \in PostResults, write \in {"ok", "fail", "none"} :
         \E p \in {process_build(builds_to_process[i], dry_run, fetch, get, post)} :
           /\ p.gets = 0 => get.kind = "raise"
           /\ p.posts = 0 => post = "ok"
           /\ write = "none" <=> ~(p.raised = "" /\ ShouldSave(p.ret, dry_run))
           /\ item_log' = Append(item_log,
                                 [ id |-> builds_to_process[i], fetched |-> p.fetched,
                                   outcome |-> p.outcome, err |-> p.err,
                                   uploads |-> p.uploads, gets |-> p.gets,
                                   posts |-> p.posts,
                                   saved |-> (write = "ok"),
                                   slept |-> p.raised = "" /\ i < Len(builds_to_process) ])
           /\ IF p.raised # ""
                THEN /\ crawler_pc' = "crashed"
                     /\ UNCHANGED <<success_count, tracker_file>>
                ELSE /\ crawler_pc' = "loop"
                     /\ success_count' = IF p.ret THEN success_count + 1
                                          ELSE success_count
                     /\ tracker_file' = IF write = "ok"
                                          THEN Append(tracker_file, builds_to_process[i])
                                          ELSE tracker_file
    /\ UNCHANGED <<runs, dry_run, limit, processed_builds, builds_to_process,
                   tracker_at_start, uploaded_before, all_builds, direct_call, pr_uploader, parked, config, request, pc,
                   locals, downstream, verification, fetches, sleeps, last_error, response>>

\* Lines 326-331: the loop is over, main prints its summary and returns.
FinishRun ==
    /\ crawler_pc = "loop"
    /\ Len(item_log) = Len(builds_to_process)
    /\ crawler_pc' = "exited"
    /\ UNCHANGED <<tracker_file, runs, dry_run, limit, processed_builds, builds_to_process,
                   success_count, item_log, tracker_at_start, uploaded_before, all_builds, direct_call,
                   pr_uploader, parked, config, request, pc, locals, downstream, verification, fetches, sleeps,
                   last_error, response>>

NextCrawler ==
    \/ StartRun
    \/ ProcessItem
    \/ FinishRun

SpecCrawler == InitCrawler /\ [][NextCrawler]_vars

\* C18 as stated: no failure while processing one build aborts the batch: main
\* never dies in its loop, and when a run is over every build of
\* builds_to_process has been processed.
C18_BatchNeverAborted ==
    /\ crawler_pc # "crashed"
    /\ crawler_pc = "exited" => Len(item_log) = Len(builds_to_process)

\* C19: the tracker file only grows, by one line at a time, and the line added
\* is the id of the build the loop has just processed, whose upload call
\* returned, in a run that is no dry run; so every id in the file was there
\* when the run started or is the id of a build uploaded in this run.
C19_ProcessedSetGrows ==
    /\ [](\A k \in DOMAIN tracker_file :
              \/ tracker_file[k] \in Range(tracker_at_start)
              \/ \E n \in DOMAIN item_log : /\ item_log[n].id = tracker_file[k]
                                             /\ item_log[n].outcome = "uploaded")
    /\ [][ /\ Len(tracker_file') >= Len(tracker_file)
           /\ SubSeq(tracker_file', 1, Len(tracker_file)) = tracker_file
           /\ tracker_file' # tracker_file =>
                 /\ Len(tracker_file') = Len(tracker_file) + 1
                 /\ Len(item_log') = Len(item_log) + 1
                 /\ ~dry_run'
                 /\ LET item == item_log'[Len(item_log')] IN
                    /\ tracker_file'[Len(tracker_file')] = item.id
                    /\ item.uploads = 1
                    /\ item.posts = 1
                    /\ item.err = "" ]_vars

\* A run in which the first build's upload failed and the second build's
\* succeeded: only the second is in the tracker file.
C19_Witness ==
    /\ Len(item_log) = 2
    /\ item_log[1].outcome = "upload_failed"
    /\ item_log[2].outcome = "uploaded"
    /\ item_log[2].saved
    /\ tracker_at_start = <<>>
    /\ tracker_file = <<item_log[2].id>>

\* C20 as stated: a build whose upload succeeded in an earlier run is not
\* processed (neither fetched nor uploaded) in a later run.
C20_UploadedSkippedLater ==
    \A k \in DOMAIN item_log : item_log[k].id \notin uploaded_before

\* --------------- direct calls of determine_build_status and verify_signature

s_ABORTED == <<"A", "B", "O", "R", "T", "E", "D">>
s_failed == <<"f", "a", "i", "l", "e", "d">>

\* finished.json documents by their result field: absent, a string in several
\* casings, recognized or not, and a value that is no string.
DirectFinishedDocs ==
    { [result |-> r, timestamp |-> Some(2), repo |-> Some(repo_org)] :
        r \in {None, Some(JNumber)}
                \cup { Some(JString(v)) : v \in { s_SUCCESS, s_success, s_Success, s_FAILURE,
                                                   s_fAILURE, s_failed, s_ABORTED, <<>> } } }

\* determine_build_status is called once with doc.
DirectStatus ==
    /\ direct_call = NoDirectCall
    /\ \E doc \in DirectFinishedDocs :
         direct_call' = [ op |-> "status", doc |-> doc,
                          status |-> determine_build_status(doc) ]
    /\ UNCHANGED <<crawler, pr_uploader, parked, config, request, pc, locals, downstream, verification, fetches,
                   sleeps, last_error, response>>

\* Values of the X-Hub-Signature header of direct calls, cut at their '='
\* signs: both bodies signed with both secrets, and malformed values.
DirectSignatures ==
    { None,
      Some(<<Text("sha1")>>),
      Some(<<Text("sha1"), Digest("s1", Body), Text("")>>),
      Some(<<Text("sha1"), Text("nonascii")>>),
      Some(<<Text("sha1"), Text("0a1b")>>) }
      \cup { Some(<<Text(alg), Digest(k, m)>>) :
                 alg \in {"sha1", "sha256"}, k \in {"s1", "s2"}, m \in {Body, OtherBody} }

\* verify_signature is called once with data and header.
DirectVerify ==
    /\ direct_call = NoDirectCall
    /\ \E data \in {Body, OtherBody}, header \in DirectSignatures :
         direct_call' = [ op |-> "verify", data |-> data, header |-> header,
                          verdict |-> verify_signature(GITHUB_SECRET, data, header) ]
    /\ UNCHANGED <<crawler, pr_uploader, parked, config, request, pc, locals, downstream, verification, fetches,
                   sleeps, last_error, response>>

NextUpload ==
    \/ DirectUpload
    \/ DirectStatus
    \/ DirectVerify

SpecUpload == InitUpload /\ [][NextUpload]_vars

\* C23 as stated: determine_build_status never raises, and answers success
\* exactly when the result field is a string that upper-cased is "SUCCESS".
C23_StatusTotal ==
    direct_call.op = "status" =>
        /\ direct_call.status.err = ""
        /\ direct_call.status.value \in {s_success, s_failure}
        /\ direct_call.status.value = s_success <=>
              direct_call.doc.result \in { Some(JString(s_SUCCESS)), Some(JString(s_success)),
                                           Some(JString(s_Success)) }

\* C21 as stated: the crawler gives an upload up to max_retries attempts: a
\* build is marked upload_failed only after max_retries upload calls.
C21_CrawlerRetries ==
    \A k \in DOMAIN item_log :
        item_log[k].outcome = "upload_failed" => item_log[k].uploads = max_retries

\* C22: in a dry run no upload call, no repository lookup and no POST is made
\* and the tracker file stays as the run found it; the builds of the run are
\* discovered without duplicates and without the builds already recorded,
\* and each build the run handles to its end has had both artifacts fetched
\* and counts as a success.
C22_DryRun ==
    dry_run =>
        /\ tracker_file = tracker_at_start
        /\ \A k \in DOMAIN builds_to_process :
              /\ builds_to_process[k] \notin processed_builds
              /\ \A n \in DOMAIN builds_to_process :
                    builds_to_process[n] = builds_to_process[k] => n = k
        /\ \A k \in DOMAIN item_log :
              /\ item_log[k].uploads = 0
              /\ item_log[k].gets = 0
              /\ item_log[k].posts = 0
              /\ ~item_log[k].saved
              /\ item_log[k].outcome \in {"fetch_failed", "raised", "dry_run"}
              /\ item_log[k].outcome = "dry_run" =>
                    /\ Len(item_log[k].fetched) = 2
                    /\ item_log[k].fetched[1].path # item_log[k].fetched[2].path
        /\ success_count = Cardinality({k \in DOMAIN item_log :
                                            item_log[k].outcome = "dry_run"})

\* A dry run that handled two builds to the end and is over.
C22_Witness ==
    /\ dry_run
    /\ crawler_pc = "exited"
    /\ Len(item_log) = 2
    /\ item_log[1].outcome = "dry_run"
    /\ item_log[2].outcome = "dry_run"
    /\ success_count = 2
    /\ tracker_file = <<>>

\* C24: with a secret configured, verify_signature accepts the sha1 header
\* made by signing the call's payload with that secret, and rejects the
\* header made with another secret or over another payload.
C24_SignRoundTrip ==
    (direct_call.op = "verify" /\ GITHUB_SECRET # None) =>
        \A k \in {"s1", "s2"}, m \in {Body, OtherBody} :
            direct_call.header = Some(<<Text("sha1"), Digest(k, m)>>) =>
                IF k = Get(GITHUB_SECRET) /\ m = direct_call.data
                  THEN direct_call.verdict = "True"
                  ELSE direct_call.verdict = "False"

\* The payload "other body" signed with the configured secret s2, accepted.
C24_Witness ==
    /\ direct_call.op = "verify"
    /\ GITHUB_SECRET = Some("s2")
    /\ direct_call.data = OtherBody
    /\ direct_call.header = Some(<<Text("sha1"), Digest("s2", OtherBody)>>)
    /\ direct_call.verdict = "True"

\* C25 as stated: with a secret configured, verify_signature returns False,
\* raising nothing, when the header is absent, has no '=', names an algorithm
\* other than sha1, or carries a digest other than the computed one.
C25_RejectsQuietly ==
    (direct_call.op = "verify" /\ GITHUB_SECRET # None) =>
        LET h == direct_call.header
            malformed ==
                \/ h = None
                \/ /\ h # None
                   /\ \/ Len(Get(h)) = 1
                      \/ Len(Get(h)) = 2 /\ Get(h)[1] # Text("sha1")
                      \/ Len(Get(h)) = 2
                            /\ Get(h)[2] # Digest(Get(GITHUB_SECRET), direct_call.data)
        IN  malformed => direct_call.verdict = "False"

\* C26 as stated: whatever the header and whether or not the secret is set,
\* verify_signature answers True or False and no exception leaves it.
C26_NoException ==
    direct_call.op = "verify" => direct_call.verdict \in {"True", "False"}

\* C27: within one delivery at most two artifact fetches are issued, each path
\* at most once, however many upload attempts are made; a fetch that fails is
\* the last one and ends the handler with the error.
C27_NoRefetch ==
    /\ Len(fetches) <= 2
    /\ \A i, j \in DOMAIN fetches : fetches[i].path = fetches[j].path => i = j
    /\ \A i \in DOMAIN fetches :
          fetches[i].result # "ok" => i = Len(fetches) /\ pc = "done" /\ upload_calls = 0
    /\ (upload_calls > 0 /\ event = "status") => Len(fetches) = 2

\* The seventh upload attempt of a status event, still with two fetches.
C27_Witness ==
    /\ event = "status"
    /\ attempt = 6
    /\ upload_calls = 7
    /\ Len(fetches) = 2

\* The delivery is signed and passed the filter of its event type.
Relevant ==
    /\ verify_result = "True"
    /\ event \in {"status", "check_run"}
    /\ ~FilteredOut

\* C28: a relevant status or check_run delivery is answered 204 only when one
\* of its upload calls returned; when it ends without one, and so when the
\* last attempt failed, the outcome is the propagated error (a server error
\* carrying it), never 200, 204 or 400.
C28_NoContentOnlyAfterUpload ==
    Relevant =>
        /\ response.status = 204 => upload_oks = 1
        /\ (pc = "done" /\ upload_oks = 0) =>
              /\ response.status = 500
              /\ last_error # ""
              /\ response.msg = last_error
        /\ (pc = "done" /\ upload_calls = max_retries /\ last_call.err # "") =>
              response = [status |-> 500, msg |-> last_call.err]

\* A Konflux check run whose seven upload calls all failed, answered with
\* the last error.
C28_Witness ==
    /\ Relevant
    /\ event = "check_run"
    /\ pc = "done"
    /\ upload_calls = max_retries
    /\ upload_oks = 0
    /\ last_call.err = "HTTPError: POST"
    /\ response = [status |-> 500, msg |-> "HTTPError: POST"]

\* C29: every delivery terminates: the handler eventually returns; it returns
\* one outcome (200, 400, 204, or the propagated error as a server error) and
\* sets it once; it makes at most 2 artifact fetches and at most 7 upload
\* calls; and nothing (verification, fetch, upload, sleep) happens after it
\* has returned.
C29_Terminates ==
    /\ <>(pc = "done")
    /\ [](/\ Len(fetches) <= 2
          /\ upload_calls <= max_retries
          /\ verify_calls <= 1
          /\ (pc = "done") <=> (response # NoResponse)
          /\ pc = "done" => response.status \in {200, 400, 204, 500})
    /\ [][pc # "done"]_vars

\* A status delivery that returned only after both fetches, seven upload
\* calls and the six sleeps between them.
C29_Witness ==
    /\ pc = "done"
    /\ response.status = 500
    /\ Len(fetches) = 2
    /\ upload_calls = max_retries
    /\ Len(sleeps) = max_retries - 1

\* The seconds one delivery has spent in time.sleep (lines 146 and 241).
RECURSIVE TotalSleep(_)
TotalSleep(q) == IF q = <<>> THEN 0 ELSE Head(q) + TotalSleep(Tail(q))

\* C30: the delay between attempts is fixed: every sleep of the retry loop
\* lasts exactly 5 seconds, whatever the attempt, and the sleeps of one
\* delivery add up to at most 35 seconds.
C30_FixedDelay ==
    /\ \A i \in 1..Len(sleeps) : sleeps[i] = 5
    /\ TotalSleep(sleeps) <= 35

\* A delivery whose seven attempts all failed: six sleeps, 30 seconds.
C30_Witness ==
    /\ upload_calls = max_retries
    /\ upload_oks = 0
    /\ Len(sleeps) = 6
    /\ sleeps[6] = 5
    /\ TotalSleep(sleeps) = 30

C35_OneSuccess ==
    /\ [](upload_oks <= 1)
    /\ [][upload_oks >= 1 =>
            /\ upload_calls' = upload_calls
            /\ get_calls' = get_calls
            /\ post_calls' = post_calls
            /\ sleeps' = sleeps]_vars

\* A delivery answered after its third call, the first that returned.
C35_Witness ==
    /\ pc = "done"
    /\ response.status = 204
    /\ upload_calls = 3
    /\ upload_oks = 1
    /\ Len(sleeps) = 2

\* C36: the fetches of a status delivery are issued in the order finished.json,
\* started.json: the first fetch asks for <prefix>/finished.json, a second one
\* asks for <prefix>/started.json and is issued only after the first one
\* returned a document; when the finished.json fetch fails, no other fetch
\* follows.
C36_FinishedBeforeStarted ==
    /\ [](/\ Len(fetches) >= 1 => fetches[1].path = source_prefix \o s_finished
          /\ Len(fetches) >= 2 =>
                /\ fetches[2].path = source_prefix \o s_started
                /\ fetches[1].result = "ok"
                /\ finished_json # None)
    /\ [][(Len(fetches) = 1 /\ fetches[1].result # "ok") => fetches' = fetches]_vars

\* A delivery that ended on the failed download of finished.json.
C36_Witness ==
    /\ event = "status"
    /\ pc = "done"
    /\ Len(fetches) = 1
    /\ fetches[1].result = "raise"
    /\ fetches[1].path = source_prefix \o s_finished
    /\ started_json = None

\* C37: a delivery without an X-GitHub-Event header is handled as a ping: it
\* is answered 200 "Pong!" in its first step, its signature is never verified
\* and nothing is fetched or uploaded for it.  A signature is therefore
\* verified only for deliveries whose header names an event other than ping.
C37_MissingHeaderIsPing ==
    /\ [](event_header = None =>
            /\ verify_calls = 0
            /\ verify_result = ""
            /\ fetches = <<>>
            /\ upload_calls = 0
            /\ get_calls = 0
            /\ post_calls = 0
            /\ pc \in {"idle", "ping", "done"}
            /\ pc = "done" => response = [status |-> 200, msg |-> "Pong!"])
    /\ [](verify_calls > 0 => event_header \notin {None, Some("ping")})

\* An unsigned delivery without the event header, answered Pong.
C37_Witness ==
    /\ pc = "done"
    /\ event_header = None
    /\ header_signature = None
    /\ response = [status |-> 200, msg |-> "Pong!"]
    /\ verify_calls = 0

\* C38 as stated: within one run no build that was in the tracker file when
\* the run started is processed, no build is processed twice, at most limit
\* builds are processed (none when limit is not positive), and the builds are
\* processed in the order in which the parsed history lists them, which names
\* each build once.
C38_RunSelection ==
    LET first(b) == CHOOSE i \in DOMAIN all_builds :
                        all_builds[i] = b /\ \A m \in 1..(i - 1) : all_builds[m] # b
    IN  /\ \A k \in DOMAIN item_log : item_log[k].id \notin Range(tracker_at_start)
        /\ \A j, k \in DOMAIN item_log : j # k => item_log[j].id # item_log[k].id
        /\ Len(item_log) <= (IF limit > 0 THEN limit ELSE 0)
        /\ \A j, k \in DOMAIN all_builds : j # k => all_builds[j] # all_builds[k]
        /\ \A k \in DOMAIN item_log : item_log[k].id \in Range(all_builds)
        /\ \A j, k \in DOMAIN item_log :
              j < k => first(item_log[j].id) < first(item_log[k].id)

\* ------------------------------------------------------------ pr_uploader.py

\* Largest PR number of a run.
MaxPrNumber == 2

\* Inputs: the contexts --ci-context asks for and the contexts of statuses.
c_e2e == <<"c", "i", "/", "e", "2", "e">>
c_e2e_tests == <<"c", "i", "/", "e", "2", "e", "-", "t">>
c_unit == <<"c", "i", "/", "u">>
RequestedContexts == {c_e2e, c_e2e_tests}

\* The statuses GitHub reports for a head commit, in the order of the answer.
StatusEntries ==
    { [context |-> c_e2e, state |-> s_success, target_url |-> Some(url_prow)],
      [context |-> c_e2e, state |-> s_failure, target_url |-> Some(url_prow)],
      [context |-> c_e2e, state |-> s_pending, target_url |-> Some(url_prow)],
      [context |-> c_e2e, state |-> s_success, target_url |-> Some(durl_plain)],
      [context |-> c_e2e, state |-> s_success, target_url |-> None],
      [context |-> c_e2e, state |-> s_failure, target_url |-> Some(url_short)],
      [context |-> c_e2e_tests, state |-> s_success, target_url |-> Some(url_prow)],
      [context |-> c_unit, state |-> s_success, target_url |-> Some(url_prow)] }

\* The lists of statuses of a head commit: none, one, and pairs in which the
\* first status is not the one a later status would make expect.
StatusLists ==
    LET st(context, state) ==
            [context |-> context, state |-> state, target_url |-> Some(url_prow)]
    IN  {<<>>} \cup {<<e>> : e \in StatusEntries}
          \cup { <<st(c_e2e_tests, s_success), st(c_e2e, s_pending)>>,
                 <<st(c_e2e, s_pending), st(c_e2e, s_success)>>,
                 <<st(c_unit, s_success), st(c_e2e, s_failure)>>,
                 <<st(c_unit, s_success), st(c_e2e_tests, s_success)>> }

StatusAnswers ==
    {[kind |-> "raise", statuses |-> <<>>]}
        \cup {[kind |-> "ok", statuses |-> l] : l \in StatusLists}

\* What get_pr_data returns: None after a failed request, else the PR with
\* its head commit (optional).
PrDataAnswers == {None, Some([head_sha |-> None]), Some([head_sha |-> Some(<<"a", "b", "c">>)])}

\* What fetch_gcs_json returns: None after any failure, an empty document, or
\* a document with fields.
GcsJsonAnswers == {"none", "empty", "doc"}

\* str.startswith
StartsWith(str, prefix) ==
    Len(str) >= Len(prefix) /\ SubSeq(str, 1, Len(prefix)) = prefix

\* Line 86: the test get_pr_status applies to each status.
StatusMatches(status, context) == StartsWith(status.context, context)

\* Lines 70-92: the first status whose context passes the test (optional);
\* None as well when the request failed.
get_pr_status(answer, context) ==
    IF answer.kind = "raise" THEN None
    ELSE LET hits == {i \in DOMAIN answer.statuses :
                        StatusMatches(answer.statuses[i], context)}
         IN  IF hits = {} THEN None
             ELSE Some(answer.statuses[CHOOSE i \in hits : \A j \in hits : i <= j])

\* Mutant of StateAccepted: the test of the state is left out.
StateAcceptedAlways(state) == TRUE

\* Line 143
StateAccepted(state) == state \in {s_success, s_failure}

\* The parameters of upload_ci_build_data (app.py 263-275), none of which has
\* a default, and the positional arguments process_pr passes (lines 173-180).
UploadParameters ==
    << "details_url", "conclusion", "started_at_epoch", "completed_at_epoch",
       "repo_full_name", "commit_sha", "triggered_name", "triggered_email",
       "triggered_id", "original_id", "name_of_payload" >>

PrUploadArguments ==
    << "target_url", "finished_json", "started_json", "triggered_name",
       "triggered_email", "triggered_id" >>

\* Python's binding of a call's positional arguments to the parameters: the
\* exception it raises before the body runs, "" when every parameter is bound.
BindPositional(parameters, arguments) ==
    IF Len(arguments) > Len(parameters)
      THEN "TypeError: too many positional arguments"
    ELSE IF Len(arguments) < Len(parameters)
      THEN "TypeError: missing required positional arguments"
    ELSE ""

\* Lines 121-185: process_pr.  pr_data, statuses, finished and started are
\* what the four requests answer.  The result: the branch taken, the number
\* of artifact fetches and of calls of upload_ci_build_data, the exception
\* caught around the upload (err), the exception that leaves process_pr
\* (raised), and the value returned.
process_pr(pr_data, statuses, context, finished, started) ==
    LET skip == [ outcome |-> "", fetches |-> 0, upload_calls |-> 0, err |-> "",
                  raised |-> "", ret |-> FALSE ]
        status == get_pr_status(statuses, context)
        target_url == Get(status).target_url
        bind == BindPositional(UploadParameters, PrUploadArguments)
    IN  IF pr_data = None THEN [skip EXCEPT !.outcome = "no_pr_data"]
        ELSE IF Get(pr_data).head_sha = None THEN [skip EXCEPT !.outcome = "no_head"]
        ELSE IF status = None THEN [skip EXCEPT !.outcome = "no_status"]
        ELSE IF ~StateAccepted(Get(status).state)
          THEN [skip EXCEPT !.outcome = "bad_state"]
        ELSE IF target_url = None \/ ~Contains(Get(target_url), s_gs)
          THEN [skip EXCEPT !.outcome = "bad_url"]
        ELSE IF Len(SplitOnce(Last(Split(Get(target_url), s_gs)), s_slash)) < 2
          THEN [skip EXCEPT !.outcome = "raised", !.raised = "IndexError"]
        ELSE IF finished # "doc" \/ started # "doc"
          THEN [skip EXCEPT !.outcome = "missing_json", !.fetches = 2]
        ELSE IF bind # ""
          THEN [skip EXCEPT !.outcome = "upload_failed", !.fetches = 2,
                            !.upload_calls = 1, !.err = bind]
        ELSE [skip EXCEPT !.outcome = "uploaded", !.fetches = 2, !.upload_calls = 1,
                          !.ret = TRUE]

\* What a list of statuses holds for a context: whether the first of the
\* statuses at the positions hits has a state of success or failure and a
\* target URL with /gs/ in it.
StatusSummary(answer, hits) ==
    LET st == answer.statuses[CHOOSE i \in hits : \A j \in hits : i <= j]
    IN  IF hits = {} THEN [found |-> FALSE, state_ok |-> FALSE, has_gs |-> FALSE]
        ELSE [ found |-> TRUE,
               state_ok |-> st.state \in {s_success, s_failure},
               has_gs |-> st.target_url # None /\ Contains(Get(st.target_url), s_gs) ]

InitPr ==
    /\ GITHUB_SECRET = None
    /\ LOGILICA_TOKEN \in Tokens
    /\ WebhookIdle
    /\ direct_call = NoDirectCall
    /\ CrawlerIdle(<<>>)
    /\ PrUploaderIdle
    /\ parked = NoDelivery

\* Lines 187-220: main up to its loop.  latest is how the last PR number is
\* found: given by --end-pr, asked from GitHub, or not found (sys.exit).
StartPrRun ==
    /\ pr_pc = "idle"
    /\ \E context \in RequestedContexts, start_pr \in 1..MaxPrNumber,
          last \in 1..MaxPrNumber, latest \in {"given", "asked", "failed", "no_pr"} :
         /\ ci_context' = context
         /\ IF latest \in {"failed", "no_pr"}
              THEN /\ pr_pc' = "exited"
                   /\ UNCHANGED <<pr_num, end_pr>>
              ELSE /\ pr_pc' = "loop"
                   /\ pr_num' = start_pr
                   /\ end_pr' = last
    /\ UNCHANGED <<pr_success_count, pr_log, direct_call, crawler, parked, config, request,
                   pc, locals, downstream, verification, fetches, sleeps, last_error,
                   response>>

\* Lines 222-228: one iteration of main's loop: process_pr, the count and the
\* pause.
ProcessPr ==
    /\ pr_pc = "loop"
    /\ pr_num <= end_pr
    /\ \E pr_data \in PrDataAnswers, statuses \in StatusAnswers,
          finished \in GcsJsonAnswers, started \in GcsJsonAnswers :
         /\ (pr_data = None \/ Get(pr_data).head_sha = None) =>
               statuses = [kind |-> "raise", statuses |-> <<>>]
         /\ \E p \in {process_pr(pr_data, statuses, ci_context, finished, started)} :
           /\ p.fetches = 0 => finished = "doc" /\ started = "doc"
           /\ pr_log' = Append(pr_log,
                  [ number |-> pr_num, outcome |-> p.outcome, fetches |-> p.fetches,
                    upload_calls |-> p.upload_calls, err |-> p.err, ret |-> p.ret,
                    raised |-> p.raised,
                    reached_status |-> pr_data # None /\ Get(pr_data).head_sha # None
                                         /\ statuses.kind = "ok",
                    fetched_both |-> p.fetches = 2 /\ finished = "doc" /\ started = "doc",
                    exact |-> StatusSummary(statuses,
                                 {i \in DOMAIN statuses.statuses :
                                     statuses.statuses[i].context = ci_context}),
                    matched |-> StatusSummary(statuses,
                                 {i \in DOMAIN statuses.statuses :
                                     StartsWith(statuses.statuses[i].context,
                                                ci_context)}) ])
           /\ IF p.raised # ""
                THEN /\ pr_pc' = "crashed"
                     /\ UNCHANGED <<pr_num, pr_success_count>>
                ELSE /\ pr_pc' = "loop"
                     /\ pr_num' = pr_num + 1
                     /\ pr_success_count' = IF p.ret THEN pr_success_count + 1
                                             ELSE pr_success_count
    /\ UNCHANGED <<end_pr, ci_context, direct_call, crawler, parked, config, request, pc,
                   locals, downstream, verification, fetches, sleeps, last_error, response>>

\* Lines 230-232: the loop is over, main prints its summary and returns.
FinishPrRun ==
    /\ pr_pc = "loop"
    /\ pr_num > end_pr
    /\ pr_pc' = "exited"
    /\ UNCHANGED <<pr_num, end_pr, ci_context, pr_success_count, pr_log, direct_call,
                   crawler, parked, config, request, pc, locals, downstream, verification,
                   fetches, sleeps, last_error, response>>

NextPr ==
    \/ StartPrRun
    \/ ProcessPr
    \/ FinishPrRun

SpecPr == InitPr /\ [][NextPr]_vars

\* C31 as stated: a PR whose matching status has state success or failure and
\* a target URL with /gs/, and whose two artifacts were fetched, is uploaded:
\* the call of upload_ci_build_data raises nothing and process_pr returns True.
C31_UploadedWhenAccepted ==
    \A k \in DOMAIN pr_log :
        LET it == pr_log[k] IN
        (it.matched.found /\ it.matched.state_ok /\ it.matched.has_gs /\ it.fetched_both) =>
            /\ it.outcome = "uploaded"
            /\ it.err = ""
            /\ it.ret

\* What C32 promises for a skipped PR: nothing fetched, nothing uploaded, no
\* exception, and process_pr returns False.
Skipped(it) ==
    /\ it.fetches = 0
    /\ it.upload_calls = 0
    /\ it.raised = ""
    /\ it.err = ""
    /\ ~it.ret

ConcurrentInputs ==
    /\ event_header \in {Some("ping"), Some("status"), Some("check_run")}
    /\ header_signature \in {None, Some(<<Text("sha1"), Digest("s1", Body)>>),
                             Some(<<Text("sha1"), Digest("s2", Body)>>)}
    /\ event = "status" =>
          payload = [context |-> "ci/prow/e2e", state |-> s_success,
                     target_url |-> url_prow]
    /\ event = "check_run" =>
          /\ payload.status = "completed"
          /\ payload.conclusion = Some(s_failure)
          /\ payload.name = name_konflux
          /\ payload.details_url = Some(durl_plain)
    /\ \A i \in DOMAIN fetches : fetches[i].result \in {"ok", "raise"}
    /\ finished_json \in {None, Some([timestamp |-> Some(2), repo |-> Some(repo_org)])}
    /\ started_json \in {None, Some([timestamp |-> Some(1),
                                     commit |-> Some(<<"a", "b", "c">>)])}
    /\ last_call.gets = 1 =>
          /\ last_call.get_kind = "ok"
          /\ last_call.first_id = "r1"
          /\ last_call.err \in {"", "HTTPError: POST"}

\* Mutant of Switch: the loop counter is a module-level variable, shared by
\* the two handlers.
SwitchSharedAttempt ==
    /\ pc # "idle"
    /\ parked' = Context
    /\ event_header' = parked.event_header
    /\ header_signature' = parked.header_signature
    /\ payload' = parked.payload
    /\ pc' = parked.pc
    /\ attempt' = attempt
    /\ source_prefix' = parked.source_prefix
    /\ finished_json' = parked.finished_json
    /\ started_json' = parked.started_json
    /\ verify_calls' = parked.verify_calls
    /\ verify_result' = parked.verify_result
    /\ fetches' = parked.fetches
    /\ upload_calls' = parked.upload_calls
    /\ upload_oks' = parked.upload_oks
    /\ get_calls' = parked.get_calls
    /\ post_calls' = parked.post_calls
    /\ last_post' = parked.last_post
    /\ last_call' = parked.last_call
    /\ sleeps' = parked.sleeps
    /\ last_error' = parked.last_error
    /\ response' = parked.response
    /\ UNCHANGED <<config, direct_call, crawler, pr_uploader>>

\* The server runs each call of github_webhook in a thread of its own: the
\* running handler is suspended with its request and its locals, and the other
\* one goes on from where it was.  The module globals stay where they are.
Switch ==
    /\ pc # "idle"
    /\ parked' = Context
    /\ event_header' = parked.event_header
    /\ header_signature' = parked.header_signature
    /\ payload' = parked.payload
    /\ pc' = parked.pc
    /\ attempt' = parked.attempt
    /\ source_prefix' = parked.source_prefix
    /\ finished_json' = parked.finished_json
    /\ started_json' = parked.started_json
    /\ verify_calls' = parked.verify_calls
    /\ verify_result' = parked.verify_result
    /\ fetches' = parked.fetches
    /\ upload_calls' = parked.upload_calls
    /\ upload_oks' = parked.upload_oks
    /\ get_calls' = parked.get_calls
    /\ post_calls' = parked.post_calls
    /\ last_post' = parked.last_post
    /\ last_call' = parked.last_call
    /\ sleeps' = parked.sleeps
    /\ last_error' = parked.last_error
    /\ response' = parked.response
    /\ UNCHANGED <<config, direct_call, crawler, pr_uploader>>

NextConcurrent ==
    \/ Receive /\ ConcurrentInputs'
    \/ HandlePing
    \/ CheckSignature
    \/ Route
    \/ FetchFinished /\ ConcurrentInputs'
    \/ FetchStarted /\ ConcurrentInputs'
    \/ AttemptStatus /\ ConcurrentInputs'
    \/ AttemptCheckRun /\ ConcurrentInputs'
    \/ Backoff
    \/ Respond
    \/ Switch

SpecConcurrent == Init /\ [][NextConcurrent]_vars

\* What a delivery c has done and answered, as its own request, its own
\* collaborators' answers and the configured secret decide it.
OwnOutcome(c) ==
    LET ev == EventOf(c.event_header) IN
    /\ Len(c.sleeps) = c.attempt
    /\ c.upload_calls <= c.attempt + 1
    /\ c.get_calls <= c.upload_calls
    /\ c.post_calls <= c.get_calls
    /\ c.upload_oks <= 1
    /\ c.verify_calls = 1 =>
          c.verify_result = verify_signature(GITHUB_SECRET, Body, c.header_signature)
    /\ c.upload_calls > 0 =>
          /\ c.verify_result = "True"
          /\ TokenMissing(LOGILICA_TOKEN) <=> c.get_calls = 0
          /\ ev = "status" => Len(c.fetches) = 2
    /\ c.pc = "done" =>
          CASE ev = "ping" ->
                  /\ c.response = [status |-> 200, msg |-> "Pong!"]
                  /\ c.verify_calls = 0
                  /\ c.upload_calls = 0
            [] c.header_signature = None ->
                  /\ c.response = [status |-> 400, msg |-> "Signature missing"]
                  /\ c.upload_calls = 0
            [] c.verify_result = "False" ->
                  /\ c.response = [status |-> 400, msg |-> "Invalid signature"]
                  /\ c.upload_calls = 0
                  /\ c.fetches = <<>>
            [] c.upload_oks = 1 ->
                  /\ c.response = [status |-> 204, msg |-> ""]
                  /\ c.last_call.err = ""
                  /\ c.upload_calls = c.attempt + 1
            [] OTHER ->
                  /\ c.response = [status |-> 500, msg |-> c.last_error]
                  /\ c.last_error # ""
                  /\ c.upload_calls > 0 => c.upload_calls = max_retries

\* C33: two deliveries in flight do not interfere.  No step writes the
\* configured secret or the token; a step of one handler leaves the other
\* delivery's request, locals and outcome as they are (they change hands only
\* when the server switches threads, and come back intact); and so, however
\* the steps of the two are interleaved, what each delivery answers and what
\* downstream calls it makes is decided by its own request and its own
\* collaborators' answers.
C33_NoInterference ==
    /\ [][GITHUB_SECRET' = GITHUB_SECRET /\ LOGILICA_TOKEN' = LOGILICA_TOKEN]_vars
    /\ [][parked' # parked => (parked' = Context /\ Context' = parked)]_vars
    /\ [](OwnOutcome(Context) /\ OwnOutcome(parked))

\* Two deliveries are in the middle of their retry loops at the same time:
\* a check run that sleeps after its second upload call, and a status event
\* that sleeps after its fourth.
C33_Witness ==
    /\ event = "check_run"
    /\ pc = "backoff"
    /\ attempt = 1
    /\ upload_calls = 2
    /\ parked.event_header = Some("status")
    /\ parked.pc = "backoff"
    /\ parked.attempt = 3
    /\ parked.upload_calls = 4
    /\ Len(parked.fetches) = 2
====
